---- MODULE Spec2Model ----
(***************************************************************************)
(* Tile caching core of the geocoordinate viewer: the TileCache class of   *)
(* src/app.js (batch download of map tiles into the Cache API) and the     *)
(* service worker of src/service-worker.js (request routing with           *)
(* cache-first / network-first strategies, the install-time pre-warm, the  *)
(* purge of old caches on activation and the message commands).            *)
(*                                                                         *)
(* JavaScript runs each handler to its next await without interruption, so *)
(* every action below is one such run: from the resumption at an await (or *)
(* the invocation) to the next await, return or throw.                     *)
(***************************************************************************)
EXTENDS Integers, Sequences, FiniteSets, TLC

(***************************************************************************)
(* Bounds of the model.                                                    *)
(***************************************************************************)
\* number of downloadArea invocations that can be unresolved at once
MaxCalls == 2
\* number of cache objects one cache name can be bound to over a run
\* (caches.open binds an unbound name to a new, empty cache)
MaxIncarn == 2
\* number of cache.put calls of the service worker in flight at once
MaxPending == 1
\* the highest zoom level the functions of the projector are called with
\* over whole boxes
MaxZoom == 2

(***************************************************************************)
(* Values.                                                                 *)
(***************************************************************************)
\* undefined: cache.match found no entry
Absent == [status |-> 0, body |-> "undefined"]

\* fetch() rejected: there is no Response
Rejected == [status |-> 0, body |-> "rejected"]

\* Bodies a server answers a url with (the content of a url does not change
\* upstream).
Bodies == {"v1"}

\* Mutant: every status from 200 on counts as ok.
IsOkFrom200(resp) == resp.status >= 200

\* Response.ok: status in the range 200-299.
IsOk(resp) == resp.status >= 200 /\ resp.status <= 299

OkResponses == [status : {200}, body : Bodies]
ErrResponses == [status : {502}, body : {"upstream error"}]
NetResponses == OkResponses \cup ErrResponses

(***************************************************************************)
(* URLs.  A URL is its hostname, as the sequence of its dot-separated      *)
(* labels, and its pathname, as the sequence of its slash-separated        *)
(* segments.  String.includes is then a search for a contiguous run of     *)
(* labels or segments.                                                     *)
(***************************************************************************)
Includes(hay, needle) ==
    \E i \in 0..(Len(hay) - Len(needle)) :
        \A j \in 1..Len(needle) : hay[i + j] = needle[j]

\* pathname.includes('/' + seg + '/'): a segment seg that another follows
IncludesSegment(path, seg) ==
    \E i \in 1..(Len(path) - 1) : path[i] = seg

ArcgisHost == <<"server", "arcgisonline", "com">>
NominatimHost == <<"nominatim", "openstreetmap", "org">>

\* 'https://server.arcgisonline.com/ArcGIS/rest/services/World_Imagery/MapServer/tile/{z}/{y}/{x}'
baseUrl ==
    [host |-> ArcgisHost,
     path |-> <<"ArcGIS", "rest", "services", "World_Imagery", "MapServer",
                "tile", "{z}", "{y}", "{x}">>]

\* String.prototype.replace with a string pattern: the first occurrence only.
\* The number is converted to its decimal string.
Replace(url, pattern, n) ==
    [url EXCEPT !.path =
        [i \in 1..Len(@) |->
            IF @[i] = pattern /\ \A j \in 1..(i - 1) : @[j] # pattern
            THEN ToString(n)
            ELSE @[i]]]

(***************************************************************************)
(* TileCoordinate projector.  Degrees are integers in units of 1e-4        *)
(* degree.  The Mercator term                                              *)
(*   (1 - ln(tan(lat) + 1/cos(lat)) / pi) / 2                              *)
(* is tabulated for the latitudes the model uses, as computed in double    *)
(* precision: its floor, and its fractional part in units of 1e-9 rounded  *)
(* down.  The term lies in [0, 1) for the latitudes of the Mercator        *)
(* square.  At +90 degrees tan and 1/cos are both 1.633e16 and the term    *)
(* is -5.551867248; at -90 degrees they cancel, Math.log(0) is -Infinity   *)
(* and the term is +Infinity.                                              *)
(***************************************************************************)
Pow2(n) == IF n = 0 THEN 1 ELSE 2 ^ n

\* Math.floor(v * Math.pow(2, zoom) / (2^twos * odd)), for v >= 0, without
\* intermediate values beyond 32 bits
ScaleDown(v, zoom, twos, odd) ==
    IF zoom >= twos
    THEN (v * Pow2(zoom - twos)) \div odd
    ELSE v \div (Pow2(twos - zoom) * odd)

\* the double +Infinity
Infinity == 2147483647

MercatorFloor(lat) == IF lat = 900000 THEN -6 ELSE 0

MercatorE9(lat) ==
    CASE lat = 900000  -> 448132751
      [] lat = 600000  -> 290399640
      [] lat = 418273  -> 371861692
      [] lat = 0       -> 500000000
      [] lat = -600000 -> 709600359

\* Mutant: the longitude is not shifted by 180 degrees.
latLngToTileUnshifted(lat, lng, zoom) ==
    [x |-> ScaleDown(lng, zoom, 7, 28125),
     y |-> MercatorFloor(lat) * Pow2(zoom) + ScaleDown(MercatorE9(lat), zoom, 9, 1953125)]

\* 3600000 = 2^7 * 28125 and 1e9 = 2^9 * 1953125
latLngToTile(lat, lng, zoom) ==
    [x |-> ScaleDown(lng + 1800000, zoom, 7, 28125),
     y |-> IF lat = -900000 THEN Infinity
           ELSE MercatorFloor(lat) * Pow2(zoom)
                    + ScaleDown(MercatorE9(lat), zoom, 9, 1953125)]

Min(a, b) == IF a <= b THEN a ELSE b
Max(a, b) == IF a >= b THEN a ELSE b

RECURSIVE Flatten(_)
Flatten(seqs) ==
    IF seqs = <<>> THEN <<>> ELSE Head(seqs) \o Flatten(Tail(seqs))

\* for (x = lo; x <= hi; x++): the sequence lo, lo+1, ..., hi
Range(lo, hi) == [i \in 1..(IF hi >= lo THEN hi - lo + 1 ELSE 0) |-> lo + i - 1]

TileUrl(z, x, y) == Replace(Replace(Replace(baseUrl, "{z}", z), "{x}", x), "{y}", y)

\* Mutant: the rows are the outer loop and the columns the inner one.
UrlsAtZoomRowFirst(bounds, z) ==
    LET nwTile == latLngToTile(bounds.north, bounds.west, z)
        seTile == latLngToTile(bounds.south, bounds.east, z)
        xs == Range(Min(nwTile.x, seTile.x), Max(nwTile.x, seTile.x))
        ys == Range(Min(nwTile.y, seTile.y), Max(nwTile.y, seTile.y))
    IN  Flatten([j \in 1..Len(ys) |->
                    [i \in 1..Len(xs) |-> TileUrl(z, xs[i], ys[j])]])

\* The urls pushed for one zoom level: x outer loop, y inner loop.
UrlsAtZoom(bounds, z) ==
    LET nwTile == latLngToTile(bounds.north, bounds.west, z)
        seTile == latLngToTile(bounds.south, bounds.east, z)
        xs == Range(Min(nwTile.x, seTile.x), Max(nwTile.x, seTile.x))
        ys == Range(Min(nwTile.y, seTile.y), Max(nwTile.y, seTile.y))
    IN  Flatten([i \in 1..Len(xs) |->
                    [j \in 1..Len(ys) |-> TileUrl(z, xs[i], ys[j])]])

generateTileUrls(bounds, minZoom, maxZoom) ==
    LET zs == Range(minZoom, maxZoom)
    IN  Flatten([k \in 1..Len(zs) |-> UrlsAtZoom(bounds, zs[k])])

Abs(n) == IF n < 0 THEN -n ELSE n

\* Mutant: the difference of the corner tiles, the last column not counted.
TilesAcrossExclusive(a, b) == Abs(b - a)

\* Math.abs(seTile.x - nwTile.x) + 1 (lines 243-244)
TilesAcross(a, b) == Abs(b - a) + 1

\* for (z = minZoom; z <= maxZoom; z++) count += width * height: the sum
\* over the zoom levels from z on
RECURSIVE CountFrom(_, _, _)
CountFrom(bounds, z, maxZoom) ==
    IF z > maxZoom THEN 0
    ELSE LET nwTile == latLngToTile(bounds.north, bounds.west, z)
             seTile == latLngToTile(bounds.south, bounds.east, z)
             width == TilesAcross(nwTile.x, seTile.x)
             height == TilesAcross(nwTile.y, seTile.y)
         IN  width * height + CountFrom(bounds, z + 1, maxZoom)

estimateTileCount(bounds, minZoom, maxZoom) == CountFrom(bounds, minZoom, maxZoom)

(***************************************************************************)
(* The same template and substitution in the service worker                *)
(* (src/service-worker.js lines 65, 79-92) and in the map manager          *)
(* (src/map-manager.js lines 469, 477-480).                                *)
(***************************************************************************)
swBaseUrl ==
    [host |-> <<"server", "arcgisonline", "com">>,
     path |-> <<"ArcGIS", "rest", "services", "World_Imagery", "MapServer",
                "tile", "{z}", "{y}", "{x}">>]

LocationTileUrl(z, x, y) ==
    Replace(Replace(Replace(swBaseUrl, "{z}", z), "{x}", x), "{y}", y)

\* The urls generateTileURLsForLocation pushes for one zoom level.
LocationUrlsAtZoom(bounds, z) ==
    LET nwTile == latLngToTile(bounds.north, bounds.west, z)
        seTile == latLngToTile(bounds.south, bounds.east, z)
        xs == Range(Min(nwTile.x, seTile.x), Max(nwTile.x, seTile.x))
        ys == Range(Min(nwTile.y, seTile.y), Max(nwTile.y, seTile.y))
    IN  Flatten([i \in 1..Len(xs) |->
                    [j \in 1..Len(ys) |-> LocationTileUrl(z, xs[i], ys[j])]])

tileUrl ==
    [host |-> <<"server", "arcgisonline", "com">>,
     path |-> <<"ArcGIS", "rest", "services", "World_Imagery", "MapServer",
                "tile", "{z}", "{y}", "{x}">>]

\* Mutant: the map manager fills the template in the order z, x, y.
VisibleTileUrlColumnFirst(zoom, x, y) ==
    Replace(Replace(Replace(tileUrl, "{z}", zoom), "{x}", y), "{y}", x)

VisibleTileUrl(zoom, x, y) ==
    Replace(Replace(Replace(tileUrl, "{z}", zoom), "{x}", x), "{y}", y)

\* MapManager.getVisibleTiles, for the bounds and the zoom the map gives:
\* from the tile of the north-west corner to that of the south-east corner
getVisibleTiles(bounds, zoom) ==
    LET nwTile == latLngToTile(bounds.north, bounds.west, zoom)
        seTile == latLngToTile(bounds.south, bounds.east, zoom)
        xs == Range(nwTile.x, seTile.x)
        ys == Range(nwTile.y, seTile.y)
    IN  Flatten([i \in 1..Len(xs) |->
                    [j \in 1..Len(ys) |-> VisibleTileUrl(zoom, xs[i], ys[j])]])

(***************************************************************************)
(* State.                                                                  *)
(***************************************************************************)
VARIABLES
    online,         \* navigator.onLine
    cachesOk,       \* the Cache API is present and its operations succeed
    cacheStorage,   \* CacheStorage: for each cache name, whether a cache of that
                    \* name exists and how many caches the name has been bound to
    cacheObjs,      \* the entries of every cache object, by name and incarnation
    isDownloading,  \* TileCache.isDownloading
    calls,          \* the downloadArea invocations
    single,         \* the cacheTile invocation
    req,            \* the fetch event being handled by the service worker,
                    \* with what its handler did (one request at a time)
    pending,        \* cache.put calls of the service worker that nobody awaits
    installing,     \* the install event of the service worker
    prewarm,        \* the runs of cacheESAFacilities
    flights,        \* the tile fetches and puts of the runs that have not settled
    activation,     \* the activate event of the service worker
    clearing,       \* the CLEAR_CACHE command
    calc,           \* the last call of a function of the projector: its
                    \* arguments and what it returned
    clearCall,      \* the clearCache invocation of the page
    infos           \* the updateCacheInfo invocations

\* the state of the service worker's lifecycle
lifecycleVars == <<installing, prewarm, flights, activation, clearing>>

\* the state of the page's calls other than the downloads
pageVars == <<calc, clearCall, infos>>

vars == <<online, cachesOk, cacheStorage, cacheObjs, isDownloading, calls, single, req, pending,
          installing, prewarm, flights, activation, clearing, calc, clearCall, infos>>

CACHE_VERSION == "v1"
STATIC_CACHE == "geocoordinate-static-" \o CACHE_VERSION
\* Mutant: the tiles go to the cache of the static assets.
TilesInStaticCache == STATIC_CACHE

TILE_CACHE == "geocoordinate-tiles-" \o CACHE_VERSION
DYNAMIC_CACHE == "geocoordinate-dynamic-" \o CACHE_VERSION
\* TileCache.cacheName
cacheName == "geocoordinate-tiles-v1"

\* The caches a previous generation of the service worker left behind: the
\* same names with another version.
PREVIOUS_VERSION == "v0"
OldNames == {"geocoordinate-static-" \o PREVIOUS_VERSION,
             "geocoordinate-tiles-" \o PREVIOUS_VERSION}

CacheNames == {STATIC_CACHE, TILE_CACHE, DYNAMIC_CACHE, cacheName} \cup OldNames

(***************************************************************************)
(* Cache API.  A handle names one cache object: the name it was opened     *)
(* under and the incarnation of that name.                                 *)
(***************************************************************************)
NoHandle == [name |-> "none", incarn |-> 0]

EmptyCache == [k \in {} |-> Absent]

\* caches.open(name) can bind the name once more (caps the incarnations)
CanOpen(name) ==
    cacheStorage[name].live \/ cacheStorage[name].incarn < MaxIncarn

\* caches.open(name): the existing cache, or a new empty one
OpenHandle(name) ==
    [name |-> name,
     incarn |-> IF cacheStorage[name].live
                THEN cacheStorage[name].incarn
                ELSE cacheStorage[name].incarn + 1]

StorageAfterOpen(name) ==
    [cacheStorage EXCEPT ![name] = [live |-> TRUE, incarn |-> OpenHandle(name).incarn]]

Entries(h) == cacheObjs[h.name][h.incarn]

\* caches.delete(name): the name is bound to no cache any more; the cache
\* object lives on for those who hold it open
StorageAfterDelete(name) == [cacheStorage EXCEPT ![name].live = FALSE]

\* Mutant: cache.put empties the cache before it writes its entry.
PutEntryAlone(objs, h, key, resp) ==
    [objs EXCEPT ![h.name][h.incarn] = [k \in {key} |-> resp]]

\* cache.put(key, response): adds the entry or replaces the one of that key
PutEntry(objs, h, key, resp) ==
    [objs EXCEPT ![h.name][h.incarn] =
        [k \in (DOMAIN @) \cup {key} |-> IF k = key THEN resp ELSE @[k]]]

\* cache.match(key): the entry of that key, or undefined
MatchEntry(h, key) ==
    IF key \in DOMAIN Entries(h) THEN Entries(h)[key] ELSE Absent

(***************************************************************************)
(* TileCache (src/app.js).                                                 *)
(***************************************************************************)
\* deleted: caches.delete was fulfilled; incarn: how many caches the name
\* of the tile cache had been bound to when caches.delete settled
IdleClear == [pc |-> "idle", deleted |-> FALSE, incarn |-> 0]

\* The clearCache that has completed last, IdleClear while none has or one
\* is running.  Invocations record it when they start.
ClearedAt == IF clearCall.pc = "done" THEN clearCall ELSE IdleClear

Calls == 1..MaxCalls

\* The areas and zoom ranges downloadArea is invoked with.
Boxes ==
    {[north |-> 600000, south |-> 0, west |-> 0, east |-> 900000],
     [north |-> 0, south |-> -600000, west |-> -900000, east |-> 0]}
ZoomRanges == {<<0, 0>>, <<1, 1>>, <<1, 0>>}

\* What fetch(url) of the page settles with: the request passes through the
\* service worker, which may answer from its cache, from the network or
\* with an error response of its own.
AppFetchOutcomes == {Rejected} \cup NetResponses

IdleCall ==
    [pc |-> "idle", urls |-> <<>>, i |-> 0, completed |-> 0, total |-> 0,
     cache |-> NoHandle, busyAtStart |-> FALSE, puts |-> 0,
     progress |-> <<>>, response |-> Absent, error |-> "none", returned |-> 0,
     args |-> <<>>]

Unresolved(c) == calls[c].pc \in {"open", "fetch", "put"}
Settled(c) == calls[c].pc \in {"resolved", "rejected"}

\* downloadArea up to the await of caches.open in cacheTiles (lines 190-196, 165)
DownloadArea(c, bounds, minZoom, maxZoom) ==
    /\ ~Unresolved(c)
    \* invocations are numbered in the order of the free slots
    /\ \A d \in Calls : d < c => Unresolved(d)
    /\ isDownloading' = TRUE
    /\ calls' = [calls EXCEPT ![c] =
            [IdleCall EXCEPT
                !.pc = "open",
                !.args = <<bounds, minZoom, maxZoom>>,
                !.urls = generateTileUrls(bounds, minZoom, maxZoom),
                !.busyAtStart = \E d \in Calls \ {c} : Unresolved(d)]]
    /\ UNCHANGED <<online, cachesOk, cacheStorage, cacheObjs, single, req, pending, lifecycleVars, pageVars>>

\* cacheTiles returns completed; downloadArea clears the flag and returns it
\* (lines 185-186, 198-201).  updateCacheInfo, which cacheTiles starts and
\* does not await, opens the cache the job has just written to and counts
\* its entries: it changes nothing here.
FinishCall(call) == [call EXCEPT !.pc = "resolved", !.returned = call.completed]

\* Mutant: onProgress is called before completed is incremented.
AfterAttemptReportsEarly(call) ==
    LET done == [call EXCEPT
                    !.completed = @ + 1,
                    !.progress = Append(@, <<call.completed, call.total>>)]
    IN  IF call.i < Len(call.urls)
        THEN [done EXCEPT !.pc = "fetch", !.i = @ + 1]
        ELSE [done EXCEPT !.pc = "resolved"]

\* completed++, onProgress(completed, total), then the next url or the end
\* of the loop (lines 179-186)
AfterAttempt(call) ==
    LET done == [call EXCEPT
                    !.completed = @ + 1,
                    !.progress = Append(@, <<call.completed + 1, call.total>>)]
    IN  IF call.i < Len(call.urls)
        THEN [done EXCEPT !.pc = "fetch", !.i = @ + 1]
        ELSE FinishCall(done)

\* The flag after a step of a call: cleared on the return of downloadArea.
FlagAfter(call) == IF call.pc = "resolved" THEN FALSE ELSE isDownloading

\* caches.open(this.cacheName) settles (lines 165-171)
CacheTilesOpened(c) ==
    /\ calls[c].pc = "open"
    /\ IF cachesOk
       THEN /\ CanOpen(cacheName)
            /\ LET opened == [calls[c] EXCEPT
                                !.cache = OpenHandle(cacheName),
                                !.total = Len(calls[c].urls)]
                   next == IF Len(opened.urls) = 0
                           THEN FinishCall(opened)
                           ELSE [opened EXCEPT !.pc = "fetch", !.i = 1]
               IN  /\ calls' = [calls EXCEPT ![c] = next]
                   /\ isDownloading' = FlagAfter(next)
            /\ cacheStorage' = StorageAfterOpen(cacheName)
       ELSE /\ calls' = [calls EXCEPT ![c] = [@ EXCEPT !.pc = "rejected", !.error = "StoreError"]]
            /\ UNCHANGED <<isDownloading, cacheStorage>>
    /\ UNCHANGED <<online, cachesOk, cacheObjs, single, req, pending, lifecycleVars, pageVars>>

\* Mutant: a tile that cannot be fetched ends the job with an error.
FailedFetchAborts(call) == [call EXCEPT !.pc = "rejected", !.error = "FetchFailed"]

\* a response that is not ok is skipped, a rejection of fetch is caught and
\* logged; either way the loop goes on (lines 172, 175-183)
AfterFailedFetch(call) == AfterAttempt(call)

\* fetch(url) settles (lines 171-177)
CacheTilesFetched(c, outcome) ==
    /\ calls[c].pc = "fetch"
    /\ LET next == IF outcome # Rejected /\ IsOk(outcome)
                   THEN [calls[c] EXCEPT !.pc = "put", !.response = outcome]
                   ELSE AfterFailedFetch(calls[c])
       IN  /\ calls' = [calls EXCEPT ![c] = next]
           /\ isDownloading' = FlagAfter(next)
    /\ UNCHANGED <<online, cachesOk, cacheStorage, cacheObjs, single, req, pending, lifecycleVars, pageVars>>

\* cache.put(url, response.clone()) settles; a rejection is caught and logged
\* (lines 173-177)
CacheTilesPut(c) ==
    /\ calls[c].pc = "put"
    /\ LET call == calls[c]
           url == call.urls[call.i]
           next == AfterAttempt([call EXCEPT
                        !.puts = IF cachesOk THEN @ + 1 ELSE @,
                        !.response = Absent])
       IN  /\ calls' = [calls EXCEPT ![c] = next]
           /\ isDownloading' = FlagAfter(next)
           /\ cacheObjs' = IF cachesOk
                           THEN PutEntry(cacheObjs, call.cache, url, call.response)
                           ELSE cacheObjs
    /\ UNCHANGED <<online, cachesOk, cacheStorage, single, req, pending, lifecycleVars, pageVars>>

\* The urls cacheTile is invoked with.
SingleUrls == {TileUrl(0, 0, 0)}

IdleSingle == [pc |-> "idle", url |-> TileUrl(0, 0, 0), cache |-> NoHandle,
               response |-> Absent, result |-> FALSE]

\* cacheTile up to the await of caches.open (lines 147-149)
CacheTile(url) ==
    /\ single.pc \in {"idle", "done"}
    /\ single' = [IdleSingle EXCEPT !.pc = "open", !.url = url]
    /\ UNCHANGED <<online, cachesOk, cacheStorage, cacheObjs, isDownloading, calls, req, pending, lifecycleVars, pageVars>>

\* caches.open settles: fetch(url), or the catch (lines 149-150, 157-160)
CacheTileOpened ==
    /\ single.pc = "open"
    /\ IF cachesOk
       THEN /\ CanOpen(cacheName)
            /\ single' = [single EXCEPT !.pc = "fetch", !.cache = OpenHandle(cacheName)]
            /\ cacheStorage' = StorageAfterOpen(cacheName)
       ELSE /\ single' = [single EXCEPT !.pc = "done", !.result = FALSE]
            /\ UNCHANGED cacheStorage
    /\ UNCHANGED <<online, cachesOk, cacheObjs, isDownloading, calls, req, pending, lifecycleVars, pageVars>>

\* fetch(url) settles (lines 150-160)
CacheTileFetched(outcome) ==
    /\ single.pc = "fetch"
    /\ single' = IF outcome # Rejected /\ IsOk(outcome)
                 THEN [single EXCEPT !.pc = "put", !.response = outcome]
                 ELSE [single EXCEPT !.pc = "done", !.result = FALSE]
    /\ UNCHANGED <<online, cachesOk, cacheStorage, cacheObjs, isDownloading, calls, req, pending, lifecycleVars, pageVars>>

\* cache.put settles: true, or the catch (lines 153-160)
CacheTilePut ==
    /\ single.pc = "put"
    /\ single' = [single EXCEPT !.pc = "done", !.result = cachesOk]
    /\ cacheObjs' = IF cachesOk
                    THEN PutEntry(cacheObjs, single.cache, single.url, single.response)
                    ELSE cacheObjs
    /\ UNCHANGED <<online, cachesOk, cacheStorage, isDownloading, calls, req, pending, lifecycleVars, pageVars>>

(***************************************************************************)
(* updateCacheInfo (lines 252-268), which is what the page calls to get    *)
(* the cache info, and clearCache (lines 271-279).  updateCacheInfo is     *)
(* also called, and not awaited, at the end of clearCache.                 *)
(***************************************************************************)
Infos == {"page", "clearCache"}

IdleInfo == [pc |-> "idle", cache |-> NoHandle, count |-> 0, since |-> IdleClear]

nonPageVars == <<online, cachesOk, isDownloading, calls, single, req, pending,
                 lifecycleVars, calc>>

\* the page asks for the cache info: updateCacheInfo up to its await of
\* caches.open (lines 252-254)
GetCacheInfo ==
    /\ infos["page"].pc \in {"idle", "done"}
    /\ infos' = [infos EXCEPT !["page"] = [IdleInfo EXCEPT !.pc = "open", !.since = ClearedAt]]
    /\ UNCHANGED <<nonPageVars, cacheStorage, cacheObjs, clearCall>>

\* caches.open(this.cacheName) settles: cache.keys() is called, or the catch
\* returns 0 (lines 254-255, 264-267)
UpdateCacheInfoOpened(who) ==
    /\ infos[who].pc = "open"
    /\ IF cachesOk
       THEN /\ CanOpen(cacheName)
            /\ infos' = [infos EXCEPT ![who] =
                            [@ EXCEPT !.pc = "keys", !.cache = OpenHandle(cacheName)]]
            /\ cacheStorage' = StorageAfterOpen(cacheName)
       ELSE /\ infos' = [infos EXCEPT ![who] = [@ EXCEPT !.pc = "done", !.count = 0]]
            /\ UNCHANGED cacheStorage
    /\ UNCHANGED <<nonPageVars, cacheObjs, clearCall>>

\* keys.length (lines 255-256)
CountKeys(h) == Cardinality(DOMAIN Entries(h))

\* cache.keys() settles: the count is shown and returned, or the catch
\* returns 0 (lines 255-267)
UpdateCacheInfoKeys(who) ==
    /\ infos[who].pc = "keys"
    /\ infos' = [infos EXCEPT ![who] =
                    [@ EXCEPT !.pc = "done", !.cache = NoHandle,
                              !.count = IF cachesOk THEN CountKeys(infos[who].cache) ELSE 0]]
    /\ UNCHANGED <<nonPageVars, cacheStorage, cacheObjs, clearCall>>

\* clearCache up to its await of caches.delete (lines 271-273); one
\* updateCacheInfo of clearCache at a time
ClearCache ==
    /\ clearCall.pc \in {"idle", "done"}
    /\ infos["clearCache"].pc \in {"idle", "done"}
    /\ clearCall' = [IdleClear EXCEPT !.pc = "delete"]
    /\ UNCHANGED <<nonPageVars, cacheStorage, cacheObjs, infos>>

\* Mutant: clearCache deletes the cache of the static assets.
ClearedName == STATIC_CACHE

\* the cache clearCache deletes (line 273)
ClearCacheName == cacheName

\* caches.delete(this.cacheName) settles: updateCacheInfo is called and
\* clearCache returns, or the rejection is caught and logged and clearCache
\* returns (lines 273-278)
ClearCacheDeleted ==
    /\ clearCall.pc = "delete"
    /\ IF cachesOk
       THEN /\ cacheStorage' = StorageAfterDelete(ClearCacheName)
            /\ clearCall' = [pc |-> "done", deleted |-> TRUE,
                             incarn |-> cacheStorage[cacheName].incarn]
            /\ infos' = [infos EXCEPT !["clearCache"] =
                            [IdleInfo EXCEPT !.pc = "open", !.since = clearCall']]
       ELSE /\ clearCall' = [pc |-> "done", deleted |-> FALSE,
                             incarn |-> cacheStorage[cacheName].incarn]
            /\ UNCHANGED <<cacheStorage, infos>>
    /\ UNCHANGED <<nonPageVars, cacheObjs>>

(***************************************************************************)
(* Service worker (src/service-worker.js): the fetch event.                *)
(***************************************************************************)
\* url.hostname.includes('arcgisonline.com') && url.pathname.includes('/tile/')
IsTileUrl(url) ==
    Includes(url.host, <<"arcgisonline", "com">>) /\ IncludesSegment(url.path, "tile")

\* url.hostname.includes('nominatim.openstreetmap.org')
IsApiUrl(url) == Includes(url.host, NominatimHost)

\* Mutant: the API pattern is tested before the tile pattern.
DispatchApiFirst(url) ==
    IF IsApiUrl(url) THEN <<"api">>
    ELSE IF IsTileUrl(url) THEN <<"tile">>
    ELSE <<"static">>

\* The handlers the listener passes to event.respondWith, in order.
Dispatch(url) ==
    IF IsTileUrl(url) THEN <<"tile">>
    ELSE IF IsApiUrl(url) THEN <<"api">>
    ELSE <<"static">>

\* The requests the service worker intercepts.  Tiles and geocoding lookups
\* are GET requests (image loads and fetch(url) of the page).
ApiUrl == [host |-> NominatimHost, path |-> <<"reverse">>]
BothUrl == [host |-> NominatimHost \o <<"arcgisonline", "com">>, path |-> <<"tile", "1">>]
ArcgisInfoUrl == [host |-> ArcgisHost, path |-> <<"ArcGIS", "rest", "info">>]
AssetUrl == [host |-> <<"localhost">>, path |-> <<"index.html">>]

Requests ==
    [url : {TileUrl(0, 0, 0), BothUrl, ApiUrl, AssetUrl}, method : {"GET"}]
    \cup [url : {AssetUrl, ArcgisInfoUrl}, method : {"POST"}]

\* the requests for a tile
TileRequests == [url : SingleUrls, method : {"GET"}]

\* the requests whose handlers write to the tile store and the dynamic store
StoredRequests == [url : {TileUrl(0, 0, 0), ApiUrl}, method : {"GET"}]

\* The responses the handlers build themselves.
Synthetic(status, body) == [kind |-> "synthetic", status |-> status, body |-> body]
TileNotCached == Synthetic(404, "Tile not available offline")
TileError == Synthetic(500, "Error loading tile")
ApiNotCached == Synthetic(503, "{error: Offline - data not cached}")
ApiError == Synthetic(500, "{error: Request failed}")
StaticNotCached == Synthetic(404, "Resource not available offline")
StaticError == Synthetic(500, "Error loading resource")

FromCache(resp) == [kind |-> "cached", status |-> resp.status, body |-> resp.body]
FromNetwork(resp) == [kind |-> "network", status |-> resp.status, body |-> resp.body]
NoResult == [kind |-> "none", status |-> 0, body |-> "none"]

\* What fetch(request) of the service worker settles with.
NetOutcomes == IF online THEN {Rejected} \cup NetResponses ELSE {Rejected}

\* cache.match(request): requests other than GET match nothing
MatchRequest(h, request) ==
    IF request.method = "GET" THEN MatchEntry(h, request.url) ELSE Absent

NoRequest ==
    [pc |-> "none", url |-> AssetUrl, method |-> "GET", handlers |-> <<>>,
     cache |-> NoHandle, onLine |-> "unread", lookup |-> "none", held |-> Absent,
     fetches |-> 0, fetched |-> Absent, put |-> FALSE, result |-> NoResult,
     since |-> IdleClear]

Handler == IF req.handlers = <<>> THEN "none" ELSE req.handlers[1]
Request == [url |-> req.url, method |-> req.method]

Respond(r, result) == [r EXCEPT !.pc = "done", !.result = result]

\* The fetch listener, and the handler up to its first await (lines 179-197,
\* 200-203, 235-239, 251, 274-277)
FetchEvent(request) ==
    /\ req.pc \in {"none", "done"}
    /\ LET new == [NoRequest EXCEPT
                      !.url = request.url, !.method = request.method,
                      !.handlers = Dispatch(request.url), !.since = ClearedAt]
       IN  req' = IF new.handlers[1] = "api"
                  THEN IF online
                       THEN [new EXCEPT !.pc = "fetch", !.onLine = "true", !.fetches = 1]
                       ELSE [new EXCEPT !.pc = "open", !.onLine = "false"]
                  ELSE [new EXCEPT !.pc = "open"]
    /\ UNCHANGED <<online, cachesOk, cacheStorage, cacheObjs, isDownloading, calls, single, pending, lifecycleVars, pageVars>>

\* cache.put(request, response.clone()) is called and not awaited
PutCall(r, response) == [cache |-> r.cache, key |-> r.url, response |-> response]

(***************************************************************************)
(* handleTileRequest: cache-first (lines 200-232).                         *)
(***************************************************************************)
\* Mutant: the cached response is not returned.
TileLookupSkipsCache(r, cached, on) ==
    IF on
    THEN [r EXCEPT !.lookup = "miss", !.onLine = "true", !.pc = "fetch", !.fetches = @ + 1]
    ELSE Respond([r EXCEPT !.lookup = "miss", !.onLine = "false"], TileNotCached)

\* Mutant: navigator.onLine is not consulted before the fetch.
TileLookupIgnoresOffline(r, cached, on) ==
    IF cached # Absent
    THEN Respond([r EXCEPT !.lookup = "hit", !.held = cached], FromCache(cached))
    ELSE [r EXCEPT !.lookup = "miss", !.onLine = "true", !.pc = "fetch", !.fetches = @ + 1]

\* after cache.match: the hit, the network when online, else the 404
\* (lines 206-226)
TileLookup(r, cached, on) ==
    IF cached # Absent
    THEN Respond([r EXCEPT !.lookup = "hit", !.held = cached], FromCache(cached))
    ELSE IF on
    THEN [r EXCEPT !.lookup = "miss", !.onLine = "true", !.pc = "fetch", !.fetches = @ + 1]
    ELSE Respond([r EXCEPT !.lookup = "miss", !.onLine = "false"], TileNotCached)

\* Mutant: every fetched response is cached, whatever its status.
TileStoresAlways(response) == TRUE

\* whether the fetched tile is put in the cache (line 214)
TileStores(response) == IsOk(response)

\* after fetch: the response, or the catch (lines 212-219, 228-231)
TileNetwork(r, outcome) ==
    IF outcome = Rejected
    THEN Respond([r EXCEPT !.fetched = Rejected], TileError)
    ELSE Respond([r EXCEPT !.fetched = outcome, !.put = TileStores(outcome)],
                 FromNetwork(outcome))

\* caches.open(TILE_CACHE) settles (lines 203-204, 228-231)
TileOpened ==
    /\ req.pc = "open" /\ Handler = "tile"
    /\ IF cachesOk
       THEN /\ CanOpen(TILE_CACHE)
            /\ req' = [req EXCEPT !.pc = "match", !.cache = OpenHandle(TILE_CACHE)]
            /\ cacheStorage' = StorageAfterOpen(TILE_CACHE)
       ELSE /\ req' = Respond([req EXCEPT !.lookup = "failed"], TileError)
            /\ UNCHANGED cacheStorage
    /\ UNCHANGED <<online, cachesOk, cacheObjs, isDownloading, calls, single, pending, lifecycleVars, pageVars>>

\* cache.match(request) settles (lines 204-226, 228-231)
TileMatched ==
    /\ req.pc = "match" /\ Handler = "tile"
    /\ req' = IF cachesOk
              THEN TileLookup(req, MatchRequest(req.cache, Request), online)
              ELSE Respond([req EXCEPT !.lookup = "failed"], TileError)
    /\ UNCHANGED <<online, cachesOk, cacheStorage, cacheObjs, isDownloading, calls, single, pending, lifecycleVars, pageVars>>

\* fetch(request) settles (lines 212-219, 228-231)
TileFetched(outcome) ==
    /\ req.pc = "fetch" /\ Handler = "tile"
    /\ req' = TileNetwork(req, outcome)
    /\ pending' = IF req'.put THEN pending \cup {PutCall(req, outcome)} ELSE pending
    /\ Cardinality(pending') <= MaxPending
    /\ UNCHANGED <<online, cachesOk, cacheStorage, cacheObjs, isDownloading, calls, single, lifecycleVars, pageVars>>

(***************************************************************************)
(* handleApiRequest: network-first (lines 235-271).                        *)
(***************************************************************************)
\* after fetch: the open of the dynamic cache for a success, the response
\* as it is otherwise, or the catch (lines 239-247, 264-270)
ApiNetwork(r, outcome) ==
    IF outcome = Rejected
    THEN Respond([r EXCEPT !.fetched = Rejected], ApiError)
    ELSE IF IsOk(outcome)
    THEN [r EXCEPT !.fetched = outcome, !.pc = "open2"]
    ELSE Respond([r EXCEPT !.fetched = outcome], FromNetwork(outcome))

\* after cache.match when offline: the entry or the 503 (lines 252-262)
ApiLookup(r, cached) ==
    IF cached # Absent
    THEN Respond([r EXCEPT !.lookup = "hit", !.held = cached], FromCache(cached))
    ELSE Respond([r EXCEPT !.lookup = "miss"], ApiNotCached)

\* fetch(request) settles (lines 239-247, 264-270)
ApiFetched(outcome) ==
    /\ req.pc = "fetch" /\ Handler = "api"
    /\ req' = ApiNetwork(req, outcome)
    /\ UNCHANGED <<online, cachesOk, cacheStorage, cacheObjs, isDownloading, calls, single, pending, lifecycleVars, pageVars>>

\* caches.open(DYNAMIC_CACHE) settles after a successful fetch (lines 243-247,
\* 264-270)
ApiOpenedForPut ==
    /\ req.pc = "open2" /\ Handler = "api"
    /\ IF cachesOk
       THEN /\ CanOpen(DYNAMIC_CACHE)
            /\ LET r == [req EXCEPT !.cache = OpenHandle(DYNAMIC_CACHE), !.put = TRUE]
               IN  /\ req' = Respond(r, FromNetwork(req.fetched))
                   /\ pending' = pending \cup {PutCall(r, req.fetched)}
                   /\ Cardinality(pending') <= MaxPending
            /\ cacheStorage' = StorageAfterOpen(DYNAMIC_CACHE)
       ELSE /\ req' = Respond([req EXCEPT !.lookup = "failed"], ApiError)
            /\ UNCHANGED <<cacheStorage, pending>>
    /\ UNCHANGED <<online, cachesOk, cacheObjs, isDownloading, calls, single, lifecycleVars, pageVars>>

\* caches.open(DYNAMIC_CACHE) settles when offline (lines 251-252, 264-270)
ApiOpened ==
    /\ req.pc = "open" /\ Handler = "api"
    /\ IF cachesOk
       THEN /\ CanOpen(DYNAMIC_CACHE)
            /\ req' = [req EXCEPT !.pc = "match", !.cache = OpenHandle(DYNAMIC_CACHE)]
            /\ cacheStorage' = StorageAfterOpen(DYNAMIC_CACHE)
       ELSE /\ req' = Respond([req EXCEPT !.lookup = "failed"], ApiError)
            /\ UNCHANGED cacheStorage
    /\ UNCHANGED <<online, cachesOk, cacheObjs, isDownloading, calls, single, pending, lifecycleVars, pageVars>>

\* cache.match(request) settles (lines 252-262, 264-270)
ApiMatched ==
    /\ req.pc = "match" /\ Handler = "api"
    /\ req' = IF cachesOk
              THEN ApiLookup(req, MatchRequest(req.cache, Request))
              ELSE Respond([req EXCEPT !.lookup = "failed"], ApiError)
    /\ UNCHANGED <<online, cachesOk, cacheStorage, cacheObjs, isDownloading, calls, single, pending, lifecycleVars, pageVars>>

(***************************************************************************)
(* handleStaticRequest: cache-first (lines 274-306).                       *)
(***************************************************************************)
\* after cache.match (lines 280-300)
StaticLookup(r, cached, on) ==
    IF cached # Absent
    THEN Respond([r EXCEPT !.lookup = "hit", !.held = cached], FromCache(cached))
    ELSE IF on
    THEN [r EXCEPT !.lookup = "miss", !.onLine = "true", !.pc = "fetch", !.fetches = @ + 1]
    ELSE Respond([r EXCEPT !.lookup = "miss", !.onLine = "false"], StaticNotCached)

\* Mutant: the method of the request is not tested.
StaticStoresAnyMethod(r, response) == IsOk(response)

\* whether the fetched asset is put in the cache (line 289)
StaticStores(r, response) == IsOk(response) /\ r.method = "GET"

\* after fetch (lines 286-293, 302-305)
StaticNetwork(r, outcome) ==
    IF outcome = Rejected
    THEN Respond([r EXCEPT !.fetched = Rejected], StaticError)
    ELSE Respond([r EXCEPT !.fetched = outcome, !.put = StaticStores(r, outcome)],
                 FromNetwork(outcome))

\* caches.open(STATIC_CACHE) settles (lines 277-278, 302-305)
StaticOpened ==
    /\ req.pc = "open" /\ Handler = "static"
    /\ IF cachesOk
       THEN /\ CanOpen(STATIC_CACHE)
            /\ req' = [req EXCEPT !.pc = "match", !.cache = OpenHandle(STATIC_CACHE)]
            /\ cacheStorage' = StorageAfterOpen(STATIC_CACHE)
       ELSE /\ req' = Respond([req EXCEPT !.lookup = "failed"], StaticError)
            /\ UNCHANGED cacheStorage
    /\ UNCHANGED <<online, cachesOk, cacheObjs, isDownloading, calls, single, pending, lifecycleVars, pageVars>>

\* cache.match(request) settles (lines 278-300, 302-305)
StaticMatched ==
    /\ req.pc = "match" /\ Handler = "static"
    /\ req' = IF cachesOk
              THEN StaticLookup(req, MatchRequest(req.cache, Request), online)
              ELSE Respond([req EXCEPT !.lookup = "failed"], StaticError)
    /\ UNCHANGED <<online, cachesOk, cacheStorage, cacheObjs, isDownloading, calls, single, pending, lifecycleVars, pageVars>>

\* fetch(request) settles (lines 286-293, 302-305)
StaticFetched(outcome) ==
    /\ req.pc = "fetch" /\ Handler = "static"
    /\ req' = StaticNetwork(req, outcome)
    /\ pending' = IF req'.put THEN pending \cup {PutCall(req, outcome)} ELSE pending
    /\ Cardinality(pending') <= MaxPending
    /\ UNCHANGED <<online, cachesOk, cacheStorage, cacheObjs, isDownloading, calls, single, lifecycleVars, pageVars>>

\* A cache.put that the handler did not await settles: the entry is written,
\* or the put rejects and the rejection is lost (lines 216, 244, 290).
PutSettled(p) ==
    /\ p \in pending
    /\ pending' = pending \ {p}
    /\ cacheObjs' = IF cachesOk
                    THEN PutEntry(cacheObjs, p.cache, p.key, p.response)
                    ELSE cacheObjs
    /\ UNCHANGED <<online, cachesOk, cacheStorage, isDownloading, calls, single, req, lifecycleVars, pageVars>>

(***************************************************************************)
(* Service worker: the pre-warm of the facilities (lines 63-154).          *)
(*                                                                         *)
(* The facility list, the zoom levels and the batch size are scaled down:  *)
(* two facilities whose boxes the tabulated latitudes cover, two zoom      *)
(* levels, and batches of batchSize tiles (10 in the source).  The first   *)
(* facility has three tiles, so that its second batch is a partial one.    *)
(***************************************************************************)
batchSize == 2

ESA_FACILITIES ==
    <<[name |-> "North", lat |-> 300000, lon |-> 450000, radius |-> 3330],
      [name |-> "South", lat |-> -300000, lon |-> -450000, radius |-> 3330]>>

ESA_ZOOM_LEVELS == <<0, 1>>

\* Math.cos(lat * Math.PI / 180), in units of 1e-3, for the latitudes of the
\* facilities
CosE3(lat) ==
    CASE lat = 300000  -> 866
      [] lat = -300000 -> 866

\* generateTileURLsForLocation (lines 63-95): the box around the centre, then
\* the tiles of the box at each zoom level of the list
LocationBounds(lat, lon, radiusKm) ==
    LET latOffset == (radiusKm * 10000) \div 111
        lonOffset == (latOffset * 1000) \div CosE3(lat)
    IN  [north |-> lat + latOffset, south |-> lat - latOffset,
         east |-> lon + lonOffset, west |-> lon - lonOffset]

generateTileURLsForLocation(lat, lon, radiusKm, zoomLevels) ==
    LET bounds == LocationBounds(lat, lon, radiusKm)
    IN  Flatten([k \in 1..Len(zoomLevels) |-> LocationUrlsAtZoom(bounds, zoomLevels[k])])

\* const urls = generateTileURLsForLocation(...) of every facility
\* (lines 116-121)
facilityUrls ==
    [k \in 1..Len(ESA_FACILITIES) |->
        generateTileURLsForLocation(ESA_FACILITIES[k].lat, ESA_FACILITIES[k].lon,
                                    ESA_FACILITIES[k].radius, ESA_ZOOM_LEVELS)]

FacilityUrls(k) == facilityUrls[k]

\* cacheESAFacilities is run by the install event and by the RECACHE_ESA
\* command (one run of the command at a time).
Runs == {"install", "message"}

\* launched: the number of fetches the run has started
IdleRun == [pc |-> "idle", cache |-> NoHandle, k |-> 0, urls |-> <<>>, i |-> 0,
            launched |-> 0]

\* urls.slice(i, i + batchSize): the positions of the batch that starts at i
\* (positions count from 1)
BatchIndices(r) == {j \in 1..Len(r.urls) : j >= r.i /\ j < r.i + batchSize}

\* batch.map(async (url) => ...): every function of the batch runs to its
\* await of fetch(url) (lines 130-133)
Launch(run, r) ==
    {[run |-> run, k |-> r.k, j |-> j, pc |-> "fetch", response |-> Absent] :
        j \in BatchIndices(r)}

FlightsOf(run, fl) == {f \in fl : f.run = run}

\* the for loop over the facilities from facility k on: the first batch of
\* the next facility that has tiles, or the end of the function
\* (lines 113-150)
FromFacility(r, k) ==
    LET rest == {f \in k..Len(ESA_FACILITIES) : Len(FacilityUrls(f)) > 0}
    IN  IF rest = {}
        THEN [r EXCEPT !.pc = "done", !.k = Len(ESA_FACILITIES), !.urls = <<>>, !.i = 0]
        ELSE LET f == CHOOSE f \in rest : \A g \in rest : f <= g
             IN  [r EXCEPT !.pc = "batch", !.k = f, !.urls = FacilityUrls(f), !.i = 1]

\* the flights a run starts when it enters r
Launched(run, r) == IF r.pc = "batch" THEN Launch(run, r) ELSE {}

\* the run in r with the fetches of its batch counted
Counted(run, r) == [r EXCEPT !.launched = @ + Cardinality(Launched(run, r))]

\* Mutant: Promise.all waits for the fetches of the batch, not for the puts.
BatchSettledAfterFetches(run, fl) == ~\E f \in FlightsOf(run, fl) : f.pc = "fetch"

\* Promise.all(batch.map(...)) settles: every function of the batch has
\* returned (lines 130-141)
BatchSettled(run, fl) == FlightsOf(run, fl) = {}

\* the run after one of its flights has settled: it waits on, or it goes to
\* the delay between batches (lines 141-144)
AfterFlight(run, fl) ==
    IF prewarm[run].pc = "batch" /\ BatchSettled(run, fl)
    THEN [prewarm[run] EXCEPT !.pc = "delay"]
    ELSE prewarm[run]

(***************************************************************************)
(* Service worker: the install event (lines 41-60).  STATIC_ASSETS is      *)
(* scaled down to two assets.                                              *)
(***************************************************************************)
RootUrl == [host |-> <<"localhost">>, path |-> <<>>]

STATIC_ASSETS == <<RootUrl, [host |-> <<"localhost">>, path |-> <<"index.html">>]>>

IdleInstall == [pc |-> "idle", static |-> "idle", cache |-> NoHandle, skipWaiting |-> FALSE]

\* Mutant: skipWaiting is called as soon as the static assets are stored.
AfterInstallStepStaticOnly(inst, run) ==
    IF inst.pc # "waiting" THEN inst
    ELSE IF inst.static = "rejected" THEN [inst EXCEPT !.pc = "installed"]
    ELSE IF inst.static = "fulfilled"
    THEN [inst EXCEPT !.pc = "installed", !.skipWaiting = TRUE]
    ELSE inst

\* Promise.all([...]).then(() => self.skipWaiting()).catch(...): the promise
\* given to event.waitUntil after a step of one of the two branches.  The
\* first rejection settles Promise.all; the catch logs it and fulfils.
\* (lines 44-59)
AfterInstallStep(inst, run) ==
    IF inst.pc # "waiting" THEN inst
    ELSE IF inst.static = "rejected" THEN [inst EXCEPT !.pc = "installed"]
    ELSE IF inst.static = "fulfilled" /\ run.pc = "done"
    THEN [inst EXCEPT !.pc = "installed", !.skipWaiting = TRUE]
    ELSE inst

\* the install event: caches.open(STATIC_CACHE) and cacheESAFacilities() are
\* called, the latter running to its await of caches.open (lines 41-53, 107-111)
Install ==
    /\ installing.pc = "idle"
    /\ prewarm["install"].pc = "idle"
    /\ installing' = [IdleInstall EXCEPT !.pc = "waiting", !.static = "open"]
    /\ prewarm' = [prewarm EXCEPT !["install"] = [IdleRun EXCEPT !.pc = "open"]]
    /\ UNCHANGED <<online, cachesOk, cacheStorage, cacheObjs, isDownloading, calls, single,
                   req, pending, flights, activation, clearing,
                   pageVars>>

\* caches.open(STATIC_CACHE) settles: cache.addAll is called, or the
\* rejection reaches the catch (lines 47-50, 56-58)
InstallStaticOpened ==
    /\ installing.pc \in {"waiting", "installed"} /\ installing.static = "open"
    /\ IF cachesOk
       THEN /\ CanOpen(STATIC_CACHE)
            /\ installing' = [installing EXCEPT
                                !.static = "addAll", !.cache = OpenHandle(STATIC_CACHE)]
            /\ cacheStorage' = StorageAfterOpen(STATIC_CACHE)
       ELSE /\ installing' = AfterInstallStep([installing EXCEPT !.static = "rejected"],
                                              prewarm["install"])
            /\ UNCHANGED cacheStorage
    /\ UNCHANGED <<online, cachesOk, cacheObjs, isDownloading, calls, single,
                   req, pending, prewarm, flights, activation, clearing,
                   pageVars>>

\* PutAll(objs, h, urls, resps): the entries of urls put one after the other
RECURSIVE PutAll(_, _, _, _)
PutAll(objs, h, urls, resps) ==
    IF urls = <<>> THEN objs
    ELSE PutAll(PutEntry(objs, h, Head(urls), Head(resps)), h, Tail(urls), Tail(resps))

\* cache.addAll(requests) settles: every asset was fetched with an ok
\* response and all are stored, or nothing is stored and it rejects
\* (lines 49, 56-58)
InstallAddAll(outcomes) ==
    /\ installing.static = "addAll"
    /\ LET allOk == cachesOk /\ \A a \in 1..Len(STATIC_ASSETS) :
                        outcomes[a] # Rejected /\ IsOk(outcomes[a])
       IN  /\ installing' = AfterInstallStep(
                    [installing EXCEPT !.static = IF allOk THEN "fulfilled" ELSE "rejected"],
                    prewarm["install"])
           /\ cacheObjs' = IF allOk
                           THEN PutAll(cacheObjs, installing.cache, STATIC_ASSETS, outcomes)
                           ELSE cacheObjs
    /\ UNCHANGED <<online, cachesOk, cacheStorage, isDownloading, calls, single,
                   req, pending, prewarm, flights, activation, clearing,
                   pageVars>>

(***************************************************************************)
(* cacheESAFacilities (lines 107-154) and the RECACHE_ESA command.         *)
(***************************************************************************)
\* the message event with type RECACHE_ESA: cacheESAFacilities() runs to its
\* await of caches.open (lines 324-326, 107-111)
RecacheMessage ==
    /\ prewarm["message"].pc \in {"idle", "done"}
    /\ prewarm' = [prewarm EXCEPT !["message"] = [IdleRun EXCEPT !.pc = "open"]]
    /\ UNCHANGED <<online, cachesOk, cacheStorage, cacheObjs, isDownloading, calls, single,
                   req, pending, installing, flights, activation, clearing,
                   pageVars>>

\* caches.open(TILE_CACHE) settles: the first batch of the first facility is
\* started, or the rejection is caught and the function returns
\* (lines 111-133, 151-153)
PrewarmOpened(run) ==
    /\ prewarm[run].pc = "open"
    /\ IF cachesOk
       THEN /\ CanOpen(TILE_CACHE)
            /\ LET r == FromFacility([prewarm[run] EXCEPT !.cache = OpenHandle(TILE_CACHE)], 1)
               IN  /\ prewarm' = [prewarm EXCEPT ![run] = Counted(run, r)]
                   /\ flights' = flights \cup Launched(run, r)
            /\ cacheStorage' = StorageAfterOpen(TILE_CACHE)
       ELSE /\ prewarm' = [prewarm EXCEPT ![run] = [@ EXCEPT !.pc = "done"]]
            /\ UNCHANGED <<flights, cacheStorage>>
    /\ installing' = AfterInstallStep(installing, prewarm'["install"])
    /\ UNCHANGED <<online, cachesOk, cacheObjs, isDownloading, calls, single,
                   req, pending, activation, clearing,
                   pageVars>>

\* fetch(url) of a tile of the batch settles: cache.put is called for an ok
\* response; otherwise, and when fetch rejects, the function of this url
\* returns (lines 133-139)
PrewarmFetched(f, outcome) ==
    /\ f \in flights /\ f.pc = "fetch"
    /\ flights' = IF outcome # Rejected /\ IsOk(outcome)
                  THEN (flights \ {f}) \cup {[f EXCEPT !.pc = "put", !.response = outcome]}
                  ELSE flights \ {f}
    /\ prewarm' = [prewarm EXCEPT ![f.run] = AfterFlight(f.run, flights')]
    /\ installing' = AfterInstallStep(installing, prewarm'["install"])
    /\ UNCHANGED <<online, cachesOk, cacheStorage, cacheObjs, isDownloading, calls, single,
                   req, pending, activation, clearing,
                   pageVars>>

\* cache.put(url, response) settles; a rejection is caught (lines 135-139)
PrewarmPut(f) ==
    /\ f \in flights /\ f.pc = "put"
    /\ flights' = flights \ {f}
    /\ cacheObjs' = IF cachesOk
                    THEN PutEntry(cacheObjs, prewarm[f.run].cache,
                                  FacilityUrls(f.k)[f.j], f.response)
                    ELSE cacheObjs
    /\ prewarm' = [prewarm EXCEPT ![f.run] = AfterFlight(f.run, flights')]
    /\ installing' = AfterInstallStep(installing, prewarm'["install"])
    /\ UNCHANGED <<online, cachesOk, cacheStorage, isDownloading, calls, single,
                   req, pending, activation, clearing,
                   pageVars>>

\* Mutant: the loop over the batches of a facility ends after the first.
MoreBatchesNever(r) == FALSE

\* i += batchSize; i < urls.length (line 127)
MoreBatches(r) == r.i + batchSize <= Len(r.urls)

\* the timer between two batches fires: the next batch of the facility, the
\* first batch of the next facility, or the end (lines 127, 144-150)
PrewarmDelayElapsed(run) ==
    /\ prewarm[run].pc = "delay"
    /\ LET r == prewarm[run]
           next == IF MoreBatches(r)
                   THEN [r EXCEPT !.pc = "batch", !.i = @ + batchSize]
                   ELSE FromFacility(r, r.k + 1)
       IN  /\ prewarm' = [prewarm EXCEPT ![run] = Counted(run, next)]
           /\ flights' = flights \cup Launched(run, next)
    /\ installing' = AfterInstallStep(installing, prewarm'["install"])
    /\ UNCHANGED <<online, cachesOk, cacheStorage, cacheObjs, isDownloading, calls, single,
                   req, pending, activation, clearing,
                   pageVars>>

(***************************************************************************)
(* Service worker: the activate event (lines 157-176) and the CLEAR_CACHE  *)
(* command (lines 314-322).                                                *)
(***************************************************************************)
\* caches.keys(): the names of the caches that exist
LiveNames == {n \in CacheNames : cacheStorage[n].live}

\* Mutant: only the static cache of the previous version is recognised.
IsOldStaticOnly(name) == name = "geocoordinate-static-" \o PREVIOUS_VERSION

\* the test of the activate listener on a cache name (lines 165-167)
IsOld(name) == name # STATIC_CACHE /\ name # TILE_CACHE /\ name # DYNAMIC_CACHE

IdleActivation == [pc |-> "idle", todo |-> {}]

\* The previous generation of the service worker opens one of its caches.
\* It serves the pages until this generation is activated.
OldGenerationOpened(name) ==
    /\ activation.pc = "idle"
    /\ cachesOk
    /\ ~cacheStorage[name].live /\ CanOpen(name)
    /\ cacheStorage' = StorageAfterOpen(name)
    /\ UNCHANGED <<online, cachesOk, cacheObjs, isDownloading, calls, single, req, pending,
                   lifecycleVars,
                   pageVars>>

\* the activate event, dispatched once install has completed: caches.keys()
\* is called (lines 157-161)
Activate ==
    /\ installing.pc = "installed"
    /\ activation.pc = "idle"
    /\ activation' = [activation EXCEPT !.pc = "keys"]
    /\ UNCHANGED <<online, cachesOk, cacheStorage, cacheObjs, isDownloading, calls, single,
                   req, pending, installing, prewarm, flights, clearing,
                   pageVars>>

\* caches.keys() settles: caches.delete is called for every old name, and
\* with none to delete clients.claim() is called (lines 162-174)
ActivateKeys ==
    /\ activation.pc = "keys"
    /\ activation' =
            IF ~cachesOk THEN [activation EXCEPT !.pc = "failed"]
            ELSE LET old == {n \in LiveNames : IsOld(n)}
                 IN  [pc |-> IF old = {} THEN "claim" ELSE "delete", todo |-> old]
    /\ UNCHANGED <<online, cachesOk, cacheStorage, cacheObjs, isDownloading, calls, single,
                   req, pending, installing, prewarm, flights, clearing,
                   pageVars>>

\* one caches.delete of the activate listener settles; after the last one
\* clients.claim() is called; a rejection rejects Promise.all (lines 163-174)
ActivateDeleted(name) ==
    /\ activation.pc \in {"delete", "failed"} /\ name \in activation.todo
    /\ LET left == activation.todo \ {name}
       IN  activation' =
                IF ~cachesOk \/ activation.pc = "failed" THEN [pc |-> "failed", todo |-> left]
                ELSE [pc |-> IF left = {} THEN "claim" ELSE "delete", todo |-> left]
    /\ cacheStorage' = IF cachesOk THEN StorageAfterDelete(name) ELSE cacheStorage
    /\ UNCHANGED <<online, cachesOk, cacheObjs, isDownloading, calls, single,
                   req, pending, installing, prewarm, flights, clearing,
                   pageVars>>

\* self.clients.claim() settles: the promise given to event.waitUntil is
\* fulfilled (line 174)
ActivateClaimed ==
    /\ activation.pc = "claim"
    /\ activation' = [activation EXCEPT !.pc = "done"]
    /\ UNCHANGED <<online, cachesOk, cacheStorage, cacheObjs, isDownloading, calls, single,
                   req, pending, installing, prewarm, flights, clearing,
                   pageVars>>

\* incarns: how many caches each name had been bound to when the command
\* arrived
IdleClearing == [pc |-> "idle", todo |-> {}, incarns |-> [n \in CacheNames |-> 0]]

\* Mutant: the command deletes the caches of this generation only.
ClearsCurrentOnly(names) == {n \in names : ~IsOld(n)}

\* the names CLEAR_CACHE deletes, of those caches.keys() gave (line 318)
Clears(names) == names

\* the message event with type CLEAR_CACHE: caches.keys() is called
\* (lines 314-316)
ClearCacheMessage ==
    /\ clearing.pc \in {"idle", "done", "failed"} /\ clearing.todo = {}
    /\ clearing' = [pc |-> "keys", todo |-> {},
                    incarns |-> [n \in CacheNames |-> cacheStorage[n].incarn]]
    /\ UNCHANGED <<online, cachesOk, cacheStorage, cacheObjs, isDownloading, calls, single,
                   req, pending, installing, prewarm, flights, activation,
                   pageVars>>

\* caches.keys() settles: caches.delete is called for every name
\* (lines 316-320)
ClearKeys ==
    /\ clearing.pc = "keys"
    /\ clearing' =
            IF ~cachesOk THEN [clearing EXCEPT !.pc = "failed"]
            ELSE [clearing EXCEPT
                    !.pc = IF Clears(LiveNames) = {} THEN "done" ELSE "delete",
                    !.todo = Clears(LiveNames)]
    /\ UNCHANGED <<online, cachesOk, cacheStorage, cacheObjs, isDownloading, calls, single,
                   req, pending, installing, prewarm, flights, activation,
                   pageVars>>

\* one caches.delete of the command settles; the command has completed when
\* the last one has (lines 317-319)
ClearDeleted(name) ==
    /\ clearing.pc \in {"delete", "failed"} /\ name \in clearing.todo
    /\ LET left == clearing.todo \ {name}
       IN  clearing' =
                IF ~cachesOk \/ clearing.pc = "failed"
                THEN [clearing EXCEPT !.pc = "failed", !.todo = left]
                ELSE [clearing EXCEPT !.pc = IF left = {} THEN "done" ELSE "delete",
                                      !.todo = left]
    /\ cacheStorage' = IF cachesOk THEN StorageAfterDelete(name) ELSE cacheStorage
    /\ UNCHANGED <<online, cachesOk, cacheObjs, isDownloading, calls, single,
                   req, pending, installing, prewarm, flights, activation,
                   pageVars>>

(***************************************************************************)
(* Calls of the functions of the projector: the page calls those of        *)
(* TileCache and MapManager, the service worker its own.                   *)
(***************************************************************************)
\* error: what the call threw; none of the functions throws
NoCalc == [op |-> "none", args |-> <<>>, result |-> <<>>, error |-> "none"]

Returned(op, args, result) == [op |-> op, args |-> args, result |-> result, error |-> "none"]

otherVars == <<online, cachesOk, cacheStorage, cacheObjs, isDownloading, calls, single,
               req, pending, lifecycleVars, clearCall, infos>>

LatLngToTile(lat, lng, zoom) ==
    /\ calc' = Returned("latLngToTile", <<lat, lng, zoom>>, latLngToTile(lat, lng, zoom))
    /\ UNCHANGED otherVars

GenerateTileUrls(bounds, minZoom, maxZoom) ==
    /\ calc' = Returned("generateTileUrls", <<bounds, minZoom, maxZoom>>,
                        generateTileUrls(bounds, minZoom, maxZoom))
    /\ UNCHANGED otherVars

EstimateTileCount(bounds, minZoom, maxZoom) ==
    /\ calc' = Returned("estimateTileCount", <<bounds, minZoom, maxZoom>>,
                        estimateTileCount(bounds, minZoom, maxZoom))
    /\ UNCHANGED otherVars

GenerateTileURLsForLocation(lat, lon, radiusKm, zoomLevels) ==
    /\ calc' = Returned("generateTileURLsForLocation", <<lat, lon, radiusKm, zoomLevels>>,
                        generateTileURLsForLocation(lat, lon, radiusKm, zoomLevels))
    /\ UNCHANGED otherVars

GetVisibleTiles(bounds, zoom) ==
    /\ calc' = Returned("getVisibleTiles", <<bounds, zoom>>, getVisibleTiles(bounds, zoom))
    /\ UNCHANGED otherVars

(***************************************************************************)
(* Environment.                                                            *)
(***************************************************************************)
\* the browser's online / offline events (src/app.js lines 93-101)
SetOnline(b) ==
    /\ online # b
    /\ online' = b
    /\ UNCHANGED <<cachesOk, cacheStorage, cacheObjs, isDownloading, calls, single, req, pending, lifecycleVars, pageVars>>

\* the Cache API starts or stops failing
SetCachesOk(b) ==
    /\ cachesOk # b
    /\ cachesOk' = b
    /\ UNCHANGED <<online, cacheStorage, cacheObjs, isDownloading, calls, single, req, pending, lifecycleVars, pageVars>>


Init ==
    /\ online = TRUE
    /\ cachesOk = TRUE
    /\ cacheStorage = [n \in CacheNames |-> [live |-> FALSE, incarn |-> 0]]
    /\ cacheObjs = [n \in CacheNames |-> [i \in 1..MaxIncarn |-> EmptyCache]]
    /\ isDownloading = FALSE
    /\ calls = [c \in Calls |-> IdleCall]
    /\ single = IdleSingle
    /\ req = NoRequest
    /\ pending = {}
    /\ installing = IdleInstall
    /\ prewarm = [run \in Runs |-> IdleRun]
    /\ flights = {}
    /\ activation = IdleActivation
    /\ clearing = IdleClearing
    /\ calc = NoCalc
    /\ clearCall = IdleClear
    /\ infos = [who \in Infos |-> IdleInfo]

(***************************************************************************)
(* The page: downloads of areas.                                           *)
(***************************************************************************)
NextDownload ==
    \/ \E c \in Calls, b \in Boxes, z \in ZoomRanges : DownloadArea(c, b, z[1], z[2])
    \/ \E c \in Calls : CacheTilesOpened(c)
    \/ \E c \in Calls, o \in AppFetchOutcomes : CacheTilesFetched(c, o)
    \/ \E c \in Calls : CacheTilesPut(c)
    \/ \E b \in BOOLEAN : SetCachesOk(b)

SpecDownload == Init /\ [][NextDownload]_vars

(***************************************************************************)
(* The service worker's router, with the page caching single tiles.        *)
(***************************************************************************)
NextRouter ==
    \/ \E r \in Requests : FetchEvent(r)
    \/ TileOpened
    \/ TileMatched
    \/ \E o \in NetOutcomes : TileFetched(o)
    \/ \E o \in NetOutcomes : ApiFetched(o)
    \/ ApiOpenedForPut
    \/ ApiOpened
    \/ ApiMatched
    \/ StaticOpened
    \/ StaticMatched
    \/ \E o \in NetOutcomes : StaticFetched(o)
    \/ \E p \in pending : PutSettled(p)
    \/ \E u \in SingleUrls : CacheTile(u)
    \/ CacheTileOpened
    \/ \E o \in AppFetchOutcomes : CacheTileFetched(o)
    \/ CacheTilePut
    \/ \E b \in BOOLEAN : SetOnline(b)
    \/ \E b \in BOOLEAN : SetCachesOk(b)

SpecRouter == Init /\ [][NextRouter]_vars

(***************************************************************************)
(* The service worker's install event and the pre-warm, with the           *)
(* RECACHE_ESA command.                                                    *)
(***************************************************************************)
NextPrewarm ==
    \/ Install
    \/ InstallStaticOpened
    \/ \E o \in [1..Len(STATIC_ASSETS) -> NetOutcomes] : InstallAddAll(o)
    \/ RecacheMessage
    \/ \E run \in Runs : PrewarmOpened(run)
    \/ \E f \in flights, o \in NetOutcomes : PrewarmFetched(f, o)
    \/ \E f \in flights : PrewarmPut(f)
    \/ \E run \in Runs : PrewarmDelayElapsed(run)
    \/ \E b \in BOOLEAN : SetCachesOk(b)

SpecPrewarm == Init /\ [][NextPrewarm]_vars

(***************************************************************************)
(* The service worker's upgrade: the caches of the previous generation,    *)
(* then the install and activate events of this one.                       *)
(***************************************************************************)
NextUpgrade ==
    \/ \E n \in OldNames : OldGenerationOpened(n)
    \/ Install
    \/ InstallStaticOpened
    \/ \E o \in [1..Len(STATIC_ASSETS) -> NetOutcomes] : InstallAddAll(o)
    \/ \E run \in Runs : PrewarmOpened(run)
    \/ \E f \in flights, o \in NetOutcomes : PrewarmFetched(f, o)
    \/ \E f \in flights : PrewarmPut(f)
    \/ \E run \in Runs : PrewarmDelayElapsed(run)
    \/ Activate
    \/ ActivateKeys
    \/ \E n \in CacheNames : ActivateDeleted(n)
    \/ ActivateClaimed
    \/ \E b \in BOOLEAN : SetCachesOk(b)

SpecUpgrade == Init /\ [][NextUpgrade]_vars

(***************************************************************************)
(* The CLEAR_CACHE command, with the caches of both generations and the    *)
(* page caching single tiles.                                              *)
(***************************************************************************)
NextClear ==
    \/ \E n \in OldNames : OldGenerationOpened(n)
    \/ ClearCacheMessage
    \/ ClearKeys
    \/ \E n \in CacheNames : ClearDeleted(n)
    \/ \E u \in SingleUrls : CacheTile(u)
    \/ CacheTileOpened
    \/ \E o \in AppFetchOutcomes : CacheTileFetched(o)
    \/ CacheTilePut
    \/ \E b \in BOOLEAN : SetCachesOk(b)

SpecClear == Init /\ [][NextClear]_vars

(***************************************************************************)
(* The two batch downloads side by side: one downloadArea of the page and  *)
(* the pre-warm run by the RECACHE_ESA command.                            *)
(***************************************************************************)
NextBatch ==
    \/ \E b \in Boxes, z \in ZoomRanges : DownloadArea(1, b, z[1], z[2])
    \/ CacheTilesOpened(1)
    \/ \E o \in AppFetchOutcomes : CacheTilesFetched(1, o)
    \/ CacheTilesPut(1)
    \/ RecacheMessage
    \/ PrewarmOpened("message")
    \/ \E f \in flights, o \in NetOutcomes : PrewarmFetched(f, o)
    \/ \E f \in flights : PrewarmPut(f)
    \/ PrewarmDelayElapsed("message")
    \/ \E b \in BOOLEAN : SetCachesOk(b)

SpecBatch == Init /\ [][NextBatch]_vars

\* Every caches.open, fetch and cache.put that has been called settles, and
\* the timer between two batches fires.
BatchFairness ==
    /\ WF_vars(CacheTilesOpened(1))
    /\ WF_vars(\E o \in AppFetchOutcomes : CacheTilesFetched(1, o))
    /\ WF_vars(CacheTilesPut(1))
    /\ WF_vars(PrewarmOpened("message"))
    /\ WF_vars(\E f \in flights, o \in NetOutcomes : PrewarmFetched(f, o))
    /\ WF_vars(\E f \in flights : PrewarmPut(f))
    /\ WF_vars(PrewarmDelayElapsed("message"))

SpecBatchFair == SpecBatch /\ BatchFairness

(***************************************************************************)
(* The router answering tile requests while a download of the page and the *)
(* pre-warm of the RECACHE_ESA command run.                                *)
(***************************************************************************)
NextInterleave ==
    \/ \E b \in Boxes : DownloadArea(1, b, 0, 1)
    \/ CacheTilesOpened(1)
    \/ \E o \in AppFetchOutcomes : CacheTilesFetched(1, o)
    \/ CacheTilesPut(1)
    \/ RecacheMessage
    \/ PrewarmOpened("message")
    \/ \E f \in flights, o \in NetOutcomes : PrewarmFetched(f, o)
    \/ \E f \in flights : PrewarmPut(f)
    \/ PrewarmDelayElapsed("message")
    \/ \E r \in TileRequests : FetchEvent(r)
    \/ TileOpened
    \/ TileMatched
    \/ \E o \in NetOutcomes : TileFetched(o)
    \/ \E p \in pending : PutSettled(p)
    \/ \E b \in BOOLEAN : SetCachesOk(b)

SpecInterleave == Init /\ [][NextInterleave]_vars

(***************************************************************************)
(* Every writer of the tile store and of the dynamic store: cacheTile, a   *)
(* download of one tile, the pre-warm, and the router answering tile and   *)
(* geocoding requests.  The network is up: the offline branch of           *)
(* handleApiRequest, which writes nothing, does not run.                   *)
(***************************************************************************)
OneTileBox == [north |-> 600000, south |-> 0, west |-> 0, east |-> 900000]

NextStores ==
    \/ \E u \in SingleUrls : CacheTile(u)
    \/ CacheTileOpened
    \/ \E o \in AppFetchOutcomes : CacheTileFetched(o)
    \/ CacheTilePut
    \/ DownloadArea(1, OneTileBox, 0, 0)
    \/ CacheTilesOpened(1)
    \/ \E o \in AppFetchOutcomes : CacheTilesFetched(1, o)
    \/ CacheTilesPut(1)
    \/ RecacheMessage
    \/ PrewarmOpened("message")
    \/ \E f \in flights, o \in NetOutcomes : PrewarmFetched(f, o)
    \/ \E f \in flights : PrewarmPut(f)
    \/ PrewarmDelayElapsed("message")
    \/ \E r \in StoredRequests : FetchEvent(r)
    \/ TileOpened
    \/ TileMatched
    \/ \E o \in NetOutcomes : TileFetched(o)
    \/ \E o \in NetOutcomes : ApiFetched(o)
    \/ ApiOpenedForPut
    \/ \E p \in pending : PutSettled(p)

SpecStores == Init /\ [][NextStores]_vars

(***************************************************************************)
(* The CLEAR_CACHE command arriving while a download of one tile and the   *)
(* pre-warm of the RECACHE_ESA command run.                                *)
(***************************************************************************)
NextOrphan ==
    \/ DownloadArea(1, OneTileBox, 0, 0)
    \/ CacheTilesOpened(1)
    \/ \E o \in AppFetchOutcomes : CacheTilesFetched(1, o)
    \/ CacheTilesPut(1)
    \/ RecacheMessage
    \/ PrewarmOpened("message")
    \/ \E f \in flights, o \in NetOutcomes : PrewarmFetched(f, o)
    \/ \E f \in flights : PrewarmPut(f)
    \/ PrewarmDelayElapsed("message")
    \/ ClearCacheMessage
    \/ ClearKeys
    \/ \E n \in CacheNames : ClearDeleted(n)

SpecOrphan == Init /\ [][NextOrphan]_vars

(***************************************************************************)
(* The projector: its functions called with boxes, centres and zoom levels *)
(* of the Mercator square.                                                 *)
(***************************************************************************)
Latitudes == {600000, 0, -600000}
Longitudes == {-900000, 0, 900000}
Zooms == 0..MaxZoom

\* BoundingBox: north > south; east is conventionally greater than west
Areas ==
    {b \in [north : Latitudes, south : Latitudes, west : Longitudes, east : Longitudes] :
        b.north > b.south}

\* what map.getBounds() returns: a box with west <= east
Viewports == {b \in Areas : b.west <= b.east}

\* the centres and the lists of zoom levels of the points of interest
Centres == [lat : {300000, -300000}, lon : {450000, -450000}]
ZoomLists == {<<0>>, <<0, 1>>, <<1, 2>>}

\* the first facility of the source's list (ESRIN) and the zoom level of its
\* reference tile
ESRIN == [lat |-> 418273, lon |-> 126734]
ReferenceZoom == 10

NextProjector ==
    \/ \E lat \in Latitudes \cup {ESRIN.lat}, lng \in Longitudes \cup {ESRIN.lon},
          zoom \in Zooms \cup {ReferenceZoom} : LatLngToTile(lat, lng, zoom)
    \/ \E b \in Areas, minZoom \in Zooms, maxZoom \in Zooms :
            GenerateTileUrls(b, minZoom, maxZoom)
    \/ \E b \in Areas, minZoom \in Zooms, maxZoom \in Zooms :
            EstimateTileCount(b, minZoom, maxZoom)
    \/ \E c \in Centres, zl \in ZoomLists :
            GenerateTileURLsForLocation(c.lat, c.lon, ESA_FACILITIES[1].radius, zl)
    \/ \E b \in Viewports, zoom \in Zooms : GetVisibleTiles(b, zoom)

SpecProjector == Init /\ [][NextProjector]_vars

(***************************************************************************)
(* The two enumerations of the tiles of one box at one zoom level: the     *)
(* page's getVisibleTiles and the tile cache's generateTileUrls, for every *)
(* box of corners, the ones with the west corner east of the east corner   *)
(* included.                                                               *)
(***************************************************************************)
NextViewport ==
    \/ \E b \in Areas, zoom \in Zooms : GetVisibleTiles(b, zoom)
    \/ \E b \in Areas, zoom \in Zooms : GenerateTileUrls(b, zoom, zoom)

SpecViewport == Init /\ [][NextViewport]_vars

(***************************************************************************)
(* The estimate and the download: the page shows the estimate for an area  *)
(* and a zoom range before the first download is started.                  *)
(***************************************************************************)
PreflightEstimate(bounds, minZoom, maxZoom) ==
    /\ calls[1].pc = "idle"
    /\ EstimateTileCount(bounds, minZoom, maxZoom)

NextEstimate ==
    \/ \E b \in Areas, minZoom \in Zooms, maxZoom \in Zooms :
            PreflightEstimate(b, minZoom, maxZoom)
    \/ \E b \in Boxes : DownloadArea(1, b, 0, 1)
    \/ CacheTilesOpened(1)
    \/ \E o \in AppFetchOutcomes : CacheTilesFetched(1, o)
    \/ CacheTilesPut(1)

SpecEstimate == Init /\ [][NextEstimate]_vars

(***************************************************************************)
(* The cache info and clearCache of the page, with the router answering    *)
(* tile requests and storing the tiles it fetches.                         *)
(***************************************************************************)
NextInfo ==
    \/ GetCacheInfo
    \/ \E who \in Infos : UpdateCacheInfoOpened(who)
    \/ \E who \in Infos : UpdateCacheInfoKeys(who)
    \/ ClearCache
    \/ ClearCacheDeleted
    \/ \E r \in TileRequests : FetchEvent(r)
    \/ TileOpened
    \/ TileMatched
    \/ \E o \in NetOutcomes : TileFetched(o)
    \/ \E p \in pending : PutSettled(p)
    \/ \E b \in BOOLEAN : SetCachesOk(b)

SpecInfo == Init /\ [][NextInfo]_vars

(***************************************************************************)
(* The poles: latLngToTile called with the latitudes +90 and -90, and a    *)
(* download of a box that reaches the north pole.                          *)
(***************************************************************************)
Poles == {900000, -900000}

PolarBox == [north |-> 900000, south |-> 0, west |-> 0, east |-> 900000]

NextPolar ==
    \/ \E lat \in Poles \cup {0}, lng \in {0, 900000}, zoom \in {0, 1} :
            LatLngToTile(lat, lng, zoom)
    \/ DownloadArea(1, PolarBox, 0, 0)
    \/ CacheTilesOpened(1)
    \/ \E o \in AppFetchOutcomes : CacheTilesFetched(1, o)
    \/ CacheTilesPut(1)

SpecPolar == Init /\ [][NextPolar]_vars

Next == NextDownload \/ NextRouter \/ NextPrewarm \/ NextUpgrade \/ NextClear \/ NextBatch
            \/ NextProjector \/ NextEstimate \/ NextPolar \/ NextInfo
            \/ NextInterleave \/ NextStores \/ NextOrphan \/ NextViewport

Spec == Init /\ [][Next]_vars

(***************************************************************************)
(* Properties of downloadArea, checked under SpecDownload.                 *)
(***************************************************************************)

\* C1: a downloadArea started while another is unresolved fails at once with
\* DownloadAlreadyInProgress: it fetches no tile and stores nothing.
C1_SecondDownloadFailsFast ==
    \A c \in Calls :
        calls[c].busyAtStart =>
            /\ calls[c].pc = "rejected"
            /\ calls[c].error = "DownloadAlreadyInProgress"
            /\ calls[c].i = 0
            /\ calls[c].puts = 0

\* C2: at most one download job is active at any time.
C2_AtMostOneActiveJob ==
    Cardinality({c \in Calls : Unresolved(c)}) <= 1

\* C3: isDownloading is true while some downloadArea call is unresolved and
\* false once every call has settled, resolved or rejected.
C3_FlagTracksDownloads ==
    /\ (\E c \in Calls : Unresolved(c)) => isDownloading
    /\ (\A c \in Calls : ~Unresolved(c)) => ~isDownloading

\* C17: the value cacheTiles and downloadArea return is the number of tiles
\* the job has put in the tile store, failed tiles not counted.
C17_ReturnsPersistedCount ==
    \A c \in Calls :
        calls[c].pc = "resolved" => calls[c].returned = calls[c].puts

\* C21: no operation ends in a failure nobody handles.  Whatever the store
\* and the network do, a request the router has answered has a response, and
\* no call of cacheTiles / downloadArea settles by rejecting.
C21_NoOperationRejects ==
    /\ req.pc = "done" => req.result # NoResult
    /\ \A c \in Calls : calls[c].pc # "rejected"

(***************************************************************************)
(* Properties of the router, checked under SpecRouter.                     *)
(***************************************************************************)
\* the step in which the handler h resumes from the await it is at
Resumes(h, pc) == req.pc = pc /\ Handler = h /\ req' # req

\* the cache holds an entry for the request when cache.match settles
Holds(r) == r.url \in DOMAIN Entries(r.cache)

\* C4: when cache.match of a tile request settles and the tile store holds an
\* entry for the url, the router answers with that entry, online or not, and
\* fetches nothing from the network.
C4_CacheFirstHit ==
    [][(Resumes("tile", "match") /\ cachesOk /\ Holds(req)) =>
            /\ req'.pc = "done"
            /\ req'.result = FromCache(Entries(req.cache)[req.url])
            /\ req'.fetches = 0
            /\ pending' = pending]_vars

\* a tile that cacheTile stored is served from the cache while offline
C4_Witness ==
    /\ req.pc = "done" /\ Handler = "tile"
    /\ single.pc = "done" /\ single.result /\ single.url = req.url
    /\ req.result = FromCache(single.response)
    /\ req.fetches = 0
    /\ ~online

\* the network could not supply a response to the request
NetworkFailed(r) ==
    \/ r.onLine = "false"
    \/ r.fetched = Rejected
    \/ (r.fetched # Absent /\ ~IsOk(r.fetched))

\* the dynamic cache exists, can be read and holds an entry for the url
DynamicHolds(url) ==
    /\ cachesOk
    /\ cacheStorage[DYNAMIC_CACHE].live
    /\ url \in DOMAIN Entries(OpenHandle(DYNAMIC_CACHE))

\* C5: an API request whose network fetch failed, or made while offline, is
\* answered from the dynamic store when the store holds an entry for it.
C5_ApiFallsBackToStore ==
    (req.pc = "done" /\ Handler = "api" /\ NetworkFailed(req) /\ DynamicHolds(req.url))
        => req.result = FromCache(Entries(OpenHandle(DYNAMIC_CACHE))[req.url])

\* C6: an API request that neither the network nor the dynamic store can
\* answer gets the 503 result with its JSON error payload.
C6_ApiUnavailableIs503 ==
    (/\ req.pc = "done" /\ Handler = "api" /\ NetworkFailed(req)
     /\ cachesOk /\ ~DynamicHolds(req.url))
        => req.result = ApiNotCached

\* C7 as claimed: on a tile miss with the network reachable (the browser is
\* online and the server answers) the router fetches the tile, returns the
\* fetched response and stores a copy.
C7_MissFetchesAndStores ==
    (/\ req.pc = "done" /\ Handler = "tile" /\ req.lookup = "miss"
     /\ req.onLine = "true" /\ req.fetched \notin {Absent, Rejected})
        => /\ req.fetches = 1
           /\ req.result.kind = "network"
           /\ req.put

\* C7 amended: when the fetch of a missed tile settles, a response is
\* returned as fetched, and a copy is put in the tile store under the
\* request url exactly when the response is ok; a rejected fetch is answered
\* with the 500 result.  When a put completes, the store holds the entry.
C7_MissStoresOkResponses ==
    [][/\ Resumes("tile", "fetch") =>
            /\ req'.pc = "done"
            /\ req.fetches = 1
            /\ IF req'.fetched = Rejected
               THEN req'.result.status = 500 /\ pending' = pending
               ELSE /\ req'.result = FromNetwork(req'.fetched)
                    /\ IsOk(req'.fetched) =>
                            [cache |-> req.cache, key |-> req.url,
                             response |-> req'.fetched] \in pending'
                    /\ ~IsOk(req'.fetched) => pending' = pending
       /\ \A p \in pending :
            (p \notin pending' /\ cachesOk) =>
                /\ p.key \in DOMAIN cacheObjs'[p.cache.name][p.cache.incarn]
                /\ cacheObjs'[p.cache.name][p.cache.incarn][p.key] = p.response]_vars

\* a missed tile was fetched and its copy has been written
C7_Witness ==
    /\ req.pc = "done" /\ Handler = "tile"
    /\ req.lookup = "miss" /\ req.put
    /\ pending = {}
    /\ Holds(req) /\ Entries(req.cache)[req.url] = req.fetched

\* C8: when cache.match of a tile request settles with no entry for the url
\* and the browser is offline, the router answers 404, fetches nothing and
\* puts nothing in the tile store.
C8_OfflineMissIs404 ==
    [][(Resumes("tile", "match") /\ cachesOk /\ ~Holds(req) /\ ~online) =>
            /\ req'.pc = "done"
            /\ req'.result.kind = "synthetic"
            /\ req'.result.status = 404
            /\ req'.fetches = 0
            /\ pending' = pending
            /\ cacheObjs' = cacheObjs]_vars

C8_Witness ==
    /\ req.pc = "done" /\ Handler = "tile"
    /\ req.lookup = "miss" /\ req.onLine = "false"
    /\ req.result.status = 404
    /\ req.fetches = 0 /\ ~req.put

\* the answer of a handler that found no entry and was offline
OfflineMiss(result) == result \in {TileNotCached, ApiNotCached, StaticNotCached}

\* C9: a request whose store operation failed is treated as a cache miss:
\* it is answered from the network, not with an error result.
C9_StoreFailureIsAMiss ==
    (req.pc = "done" /\ req.lookup = "failed")
        => (req.result.kind = "network" \/ OfflineMiss(req.result))

\* the cache each strategy works on
CacheOf(h) ==
    CASE h = "tile" -> TILE_CACHE
      [] h = "api" -> DYNAMIC_CACHE
      [] h = "static" -> STATIC_CACHE

\* C10: every request is passed to exactly one handler, the first that
\* matches in the order tile, API, static, and only that handler works on it.
C10_OneHandlerFirstMatch ==
    req.pc # "none" =>
        /\ Len(req.handlers) = 1
        /\ IsTileUrl(req.url) => Handler = "tile"
        /\ (~IsTileUrl(req.url) /\ IsApiUrl(req.url)) => Handler = "api"
        /\ (~IsTileUrl(req.url) /\ ~IsApiUrl(req.url)) => Handler = "static"
        /\ req.cache # NoHandle => req.cache.name = CacheOf(Handler)
        /\ req.pc = "done" => req.result # NoResult

\* a url matching the tile and the API patterns was answered by the tile handler
C10_Witness ==
    /\ req.pc = "done"
    /\ IsTileUrl(req.url) /\ IsApiUrl(req.url)
    /\ req.handlers = <<"tile">>
    /\ req.cache.name = TILE_CACHE

\* C11: the static strategy stores only the successes of GET requests.  When
\* the fetch of a static request settles, a put into the static cache is
\* issued exactly when the method is GET and the response is ok; a response
\* to another method, or one that is not ok, is returned as fetched and not
\* stored.  The static cache changes only when such a put settles, so every
\* entry of it is an ok response.
C11_StaticStoresGetSuccesses ==
    [][/\ Resumes("static", "fetch") =>
            /\ req'.pc = "done"
            /\ req'.fetched # Rejected => req'.result = FromNetwork(req'.fetched)
            /\ IF req.method = "GET" /\ req'.fetched # Rejected /\ IsOk(req'.fetched)
               THEN pending' = pending \cup {PutCall(req, req'.fetched)}
               ELSE pending' = pending
       /\ \A p \in pending' \ pending :
            p.cache.name = STATIC_CACHE =>
                /\ Handler = "static" /\ req.method = "GET"
                /\ p.key = req.url /\ IsOk(p.response)
       /\ cacheObjs'[STATIC_CACHE] # cacheObjs[STATIC_CACHE] =>
            \E p \in pending \ pending' :
                /\ p.cache.name = STATIC_CACHE /\ IsOk(p.response)
                /\ cacheObjs' = PutEntry(cacheObjs, p.cache, p.key, p.response)
       /\ \A i \in 1..MaxIncarn : \A k \in DOMAIN cacheObjs'[STATIC_CACHE][i] :
            IsOk(cacheObjs'[STATIC_CACHE][i][k])]_vars

\* a POST for a static asset was answered 200 from the network and nothing
\* was stored for it
C11_Witness ==
    /\ req.pc = "done" /\ Handler = "static" /\ req.method = "POST"
    /\ IsOk(req.fetched) /\ req.result = FromNetwork(req.fetched)
    /\ ~req.put /\ pending = {}
    /\ ~cacheStorage[STATIC_CACHE].live \/ ~Holds(req)

(***************************************************************************)
(* Properties of the upgrade, checked under SpecUpgrade.                   *)
(***************************************************************************)
\* C12: once the activate event of this generation has completed, every
\* cache that exists bears one of this generation's three names; a cache of
\* the previous generation that existed before is gone.
C12_ActivationPurgesOldStores ==
    activation.pc = "done" =>
        /\ \A n \in CacheNames :
                cacheStorage[n].live => n \in {STATIC_CACHE, TILE_CACHE, DYNAMIC_CACHE}
        /\ \A n \in OldNames : ~cacheStorage[n].live

\* activation has completed, both caches of the previous generation had
\* existed and are deleted, and the tile cache of this generation is kept
C12_Witness ==
    /\ activation.pc = "done"
    /\ \A n \in OldNames : cacheStorage[n].incarn > 0 /\ ~cacheStorage[n].live
    /\ cacheStorage[TILE_CACHE].live

(***************************************************************************)
(* Properties of the CLEAR_CACHE command, checked under SpecClear.         *)
(***************************************************************************)
\* no caches.open has created a cache since the command arrived
NoWriterSince == \A n \in CacheNames : cacheStorage[n].incarn = clearing.incarns[n]

\* C13: once the CLEAR_CACHE command has completed, and nobody has created
\* a cache since it arrived, no cache exists, of either generation.
C13_ClearDeletesEveryStore ==
    (clearing.pc = "done" /\ NoWriterSince) =>
        \A n \in CacheNames : ~cacheStorage[n].live

\* the command has completed undisturbed and has deleted a cache of the
\* previous generation and the tile cache of this one
C13_Witness ==
    /\ clearing.pc = "done" /\ NoWriterSince
    /\ \E n \in OldNames : cacheStorage[n].incarn > 0
    /\ cacheStorage[TILE_CACHE].incarn > 0
    /\ \A n \in CacheNames : ~cacheStorage[n].live

(***************************************************************************)
(* Properties of the pre-warm, checked under SpecPrewarm.                  *)
(***************************************************************************)
\* a step of the run of cacheESAFacilities that RECACHE_ESA started
RecacheStep ==
    \/ prewarm'["message"] # prewarm["message"]
    \/ FlightsOf("message", flights') # FlightsOf("message", flights)

\* C14: no step of the pre-warm that the RECACHE_ESA command runs changes
\* the static cache or the dynamic cache: neither whether the cache exists
\* nor any of its entries; it does not start the population of the static
\* cache again.
C14_RecacheLeavesOtherStores ==
    [][RecacheStep =>
            /\ \A n \in {STATIC_CACHE, DYNAMIC_CACHE} :
                    /\ cacheStorage'[n] = cacheStorage[n]
                    /\ cacheObjs'[n] = cacheObjs[n]
            /\ installing'.static = installing.static]_vars

\* the command's run has finished and has stored tiles, beside a populated
\* static cache
C14_Witness ==
    /\ prewarm["message"].pc = "done"
    /\ prewarm["message"].cache.name = TILE_CACHE
    /\ Entries(prewarm["message"].cache) # EmptyCache
    /\ installing.static = "fulfilled"
    /\ \A a \in 1..Len(STATIC_ASSETS) : STATIC_ASSETS[a] \in DOMAIN Entries(installing.cache)

(***************************************************************************)
(* Properties of the batch downloads, checked under SpecBatch.             *)
(***************************************************************************)
\* the fetch of a tile failed: it rejected, or the status is not a success
FetchFailed(outcome) == outcome = Rejected \/ ~IsOk(outcome)

\* the number of tiles of all facilities
TotalFacilityUrls ==
    Len(Flatten([k \in 1..Len(ESA_FACILITIES) |-> FacilityUrls(k)]))

\* C15: a tile whose fetch fails in a batch download is skipped.  In
\* cacheTiles the step counts the attempt, raises no error, stores nothing
\* and goes on to the next url (never the same one), or returns after the
\* last; in the pre-warm the function of that url returns without a put and
\* the other tiles and the run go on.  A job that has ended has attempted
\* every url.
C15_TileFailureIsSkipped ==
    [][/\ \A c \in Calls : \A o \in AppFetchOutcomes :
            (CacheTilesFetched(c, o) /\ FetchFailed(o)) =>
                /\ calls'[c].error = "none"
                /\ calls'[c].completed = calls[c].completed + 1
                /\ IF calls[c].i < Len(calls[c].urls)
                   THEN calls'[c].pc = "fetch" /\ calls'[c].i = calls[c].i + 1
                   ELSE calls'[c].pc = "resolved"
                /\ calls'[c].puts = calls[c].puts
                /\ cacheObjs' = cacheObjs
       /\ \A f \in flights : \A o \in NetOutcomes :
            (PrewarmFetched(f, o) /\ FetchFailed(o)) =>
                /\ flights' = flights \ {f}
                /\ cacheObjs' = cacheObjs
                /\ prewarm'[f.run].pc \in {"batch", "delay"}
                /\ prewarm'[f.run].k = prewarm[f.run].k
                /\ prewarm'[f.run].launched = prewarm[f.run].launched
       /\ \A c \in Calls :
            calls'[c].pc = "resolved" => calls'[c].completed = Len(calls'[c].urls)
       /\ \A run \in Runs :
            (prewarm'[run].pc = "done" /\ prewarm'[run].cache # NoHandle) =>
                prewarm'[run].launched = TotalFacilityUrls]_vars

\* a download of two tiles has returned: the first fetch failed and left no
\* entry, the second tile was fetched and stored all the same; and a run of
\* the pre-warm has finished with a tile missing from the cache
C15_Witness ==
    /\ calls[1].pc = "resolved" /\ Len(calls[1].urls) = 2
    /\ calls[1].completed = 2 /\ calls[1].puts = 1
    /\ calls[1].urls[1] \notin DOMAIN Entries(calls[1].cache)
    /\ calls[1].urls[2] \in DOMAIN Entries(calls[1].cache)
    /\ prewarm["message"].pc = "done"
    /\ prewarm["message"].launched = TotalFacilityUrls
    /\ \E k \in 1..Len(ESA_FACILITIES) : \E j \in 1..Len(FacilityUrls(k)) :
            FacilityUrls(k)[j] \notin DOMAIN Entries(prewarm["message"].cache)

\* C16: a cacheTiles job over N urls calls onProgress after each tile
\* attempt, failed or not, with (1, N), (2, N), ... in this order: when
\* it is at its i-th url it has made i - 1 calls, and when it returns it has
\* made exactly the N calls (1, N) ... (N, N).
C16_ProgressCountsAttempts ==
    \A c \in Calls :
        LET call == calls[c]
            N == Len(call.urls)
        IN  call.pc \in {"fetch", "put", "resolved"} =>
                /\ call.total = N
                /\ Len(call.progress) = call.completed
                /\ \A k \in 1..Len(call.progress) : call.progress[k] = <<k, N>>
                /\ call.pc \in {"fetch", "put"} => call.completed = call.i - 1
                /\ call.pc = "resolved" => Len(call.progress) = N

\* a job of two urls, one of which failed, has returned after the calls
\* (1, 2) and (2, 2)
C16_Witness ==
    \E c \in Calls :
        /\ calls[c].pc = "resolved"
        /\ calls[c].puts = 1
        /\ calls[c].progress = <<(<<1, 2>>), (<<2, 2>>)>>

(***************************************************************************)
(* Properties of the batches and of the install event, checked under       *)
(* SpecPrewarm.                                                            *)
(***************************************************************************)
\* the fetches a step starts for a run
Started(run) == {f \in flights' \ flights : f.run = run /\ f.pc = "fetch"}

\* C18: the batches of a run of the pre-warm follow one another.  Never more
\* than batchSize fetches and puts of the run are unsettled, and all of them
\* belong to the current batch; a step that starts fetches finds no fetch
\* and no put of the run unsettled, and for every batch but the first of the
\* run it is the step in which the delay after the batch before ends.
C18_BatchesRunOneAfterAnother ==
    [][\A run \in Runs :
            /\ Cardinality(FlightsOf(run, flights')) <= batchSize
            /\ \A f \in FlightsOf(run, flights') :
                    /\ prewarm'[run].pc = "batch"
                    /\ f.k = prewarm'[run].k
                    /\ f.j \in BatchIndices(prewarm'[run])
            /\ Started(run) # {} =>
                    /\ FlightsOf(run, flights) = {}
                    /\ Started(run) = Launch(run, prewarm'[run])
                    /\ IF prewarm[run].launched = 0
                       THEN prewarm[run].pc = "open"
                       ELSE prewarm[run].pc = "delay"]_vars

\* the install-time run is in the second batch of its first facility, with
\* the only tile of that batch being stored
C18_Witness ==
    /\ prewarm["install"].pc = "batch"
    /\ prewarm["install"].k = 1
    /\ prewarm["install"].i = batchSize + 1
    /\ \E f \in flights :
            /\ FlightsOf("install", flights) = {f}
            /\ f.pc = "put" /\ f.j = prewarm["install"].i

\* the number of tiles of the facilities 1 .. k
UrlsUpTo(k) == Len(Flatten([f \in 1..k |-> FacilityUrls(f)]))

\* C19: a run of the pre-warm takes the facilities one after the other in
\* the order of the list.  All its unsettled fetches and puts are tiles of
\* one facility; the step that passes from facility k to the next finds none
\* of them unsettled, comes after the delay of the last batch of k, when
\* every tile of the facilities up to k has been fetched, and goes to k + 1.
C19_FacilitiesRunInListOrder ==
    [][\A run \in Runs :
            /\ \A f \in FlightsOf(run, flights') : f.k = prewarm'[run].k
            /\ \A f \in Started(run) : f.k = prewarm'[run].k
            /\ (prewarm[run].k > 0 /\ prewarm'[run].k > prewarm[run].k) =>
                    /\ prewarm'[run].k = prewarm[run].k + 1
                    /\ FlightsOf(run, flights) = {}
                    /\ prewarm[run].pc = "delay"
                    /\ prewarm[run].i + batchSize > Len(prewarm[run].urls)
                    /\ prewarm[run].launched = UrlsUpTo(prewarm[run].k)
            /\ prewarm'[run].k < prewarm[run].k => prewarm'[run].pc = "open"]_vars

\* the run of the command is fetching the two tiles of the second facility,
\* and a tile of the first facility is not in the cache
C19_Witness ==
    /\ prewarm["message"].pc = "batch" /\ prewarm["message"].k = 2
    /\ Cardinality(FlightsOf("message", flights)) = 2
    /\ \A f \in FlightsOf("message", flights) : f.pc = "fetch" /\ f.k = 2
    /\ \E j \in 1..Len(FacilityUrls(1)) :
            FacilityUrls(1)[j] \notin DOMAIN Entries(prewarm["message"].cache)

\* C20: when the install event has completed, the static cache of this
\* generation exists and holds an entry for every asset of STATIC_ASSETS.
C20_InstalledStaticComplete ==
    installing.pc = "installed" =>
        /\ cacheStorage[STATIC_CACHE].live
        /\ \A a \in 1..Len(STATIC_ASSETS) :
                STATIC_ASSETS[a] \in DOMAIN Entries(OpenHandle(STATIC_CACHE))

(***************************************************************************)
(* Properties of the estimate, checked under SpecEstimate.                 *)
(***************************************************************************)
\* C22: what estimateTileCount returns for a box and a single zoom level is
\* the length of the list generateTileUrls builds for them, and what it
\* returns for a box and a zoom range is the total every onProgress call of
\* a downloadArea over the same box and range reports.
C22_EstimateIsListLength ==
    calc.op = "estimateTileCount" =>
        /\ calc.args[2] = calc.args[3] =>
                calc.result = Len(generateTileUrls(calc.args[1], calc.args[2], calc.args[3]))
        /\ \A c \in Calls :
                (calls[c].args = calc.args /\ calls[c].pc \in {"fetch", "put", "resolved"}) =>
                    /\ calls[c].total = calc.result
                    /\ \A k \in 1..Len(calls[c].progress) :
                            calls[c].progress[k][2] = calc.result

\* the estimate for a box over the zoom levels 0 and 1 is three tiles, and a
\* download of the same box and levels has returned after reporting
\* (1, 3), (2, 3), (3, 3)
C22_Witness ==
    /\ calc.op = "estimateTileCount" /\ calc.args[2] < calc.args[3]
    /\ calc.result = 3
    /\ calls[1].args = calc.args /\ calls[1].pc = "resolved"
    /\ Len(calls[1].progress) = 3
    /\ \A k \in 1..3 : calls[1].progress[k] = <<k, calc.result>>

(***************************************************************************)
(* Properties of the projector, checked under SpecProjector.               *)
(***************************************************************************)
\* the TileRequest of the tile (x, y) at zoom z: .../tile/z/y/x
TileRequest(z, x, y) ==
    [host |-> <<"server", "arcgisonline", "com">>,
     path |-> <<"ArcGIS", "rest", "services", "World_Imagery", "MapServer", "tile",
                ToString(z), ToString(y), ToString(x)>>]

Between(n, a, b) == (a <= n /\ n <= b) \/ (b <= n /\ n <= a)

\* the tiles (z, x, y) of a box at the zoom levels zs: x and y in the ranges
\* the tiles of the two corners span
TilesOf(bounds, zs) ==
    LET nw(z) == latLngToTile(bounds.north, bounds.west, z)
        se(z) == latLngToTile(bounds.south, bounds.east, z)
        xs == UNION {{nw(z).x, se(z).x} : z \in zs}
        ys == UNION {{nw(z).y, se(z).y} : z \in zs}
        lo(S) == CHOOSE n \in S : \A k \in S : n <= k
        hi(S) == CHOOSE n \in S : \A k \in S : n >= k
    IN  IF zs = {} THEN {}
        ELSE {t \in zs \X (lo(xs)..hi(xs)) \X (lo(ys)..hi(ys)) :
                /\ Between(t[2], nw(t[1]).x, se(t[1]).x)
                /\ Between(t[3], nw(t[1]).y, se(t[1]).y)}

\* zoom ascending, then x ascending, then y ascending
Before(s, t) ==
    \/ s[1] < t[1]
    \/ s[1] = t[1] /\ s[2] < t[2]
    \/ s[1] = t[1] /\ s[2] = t[2] /\ s[3] < t[3]

\* list holds one TileRequest for each tile of tiles and nothing else, in
\* the order Before
ListsExactly(list, tiles) ==
    /\ Len(list) = Cardinality(tiles)
    /\ \A t \in tiles : \E i \in 1..Len(list) : list[i] = TileRequest(t[1], t[2], t[3])
    /\ \A i \in 1..Len(list) : \E t \in tiles : list[i] = TileRequest(t[1], t[2], t[3])
    /\ \A i, j \in 1..Len(list) : \A s, t \in tiles :
            (/\ i < j
             /\ list[i] = TileRequest(s[1], s[2], s[3])
             /\ list[j] = TileRequest(t[1], t[2], t[3])) => Before(s, t)

\* C23: the list generateTileUrls returns for a box and a zoom range, and
\* the list generateTileURLsForLocation returns for the box around a centre
\* and a list of zoom levels, hold exactly one TileRequest for each
\* (x, y, z) with x and y in the inclusive ranges the two corner tiles
\* span, without duplicates, zoom ascending, then x, then y.
C23_TileListIsExactAndOrdered ==
    /\ calc.op = "generateTileUrls" =>
            ListsExactly(calc.result, TilesOf(calc.args[1], calc.args[2]..calc.args[3]))
    /\ calc.op = "generateTileURLsForLocation" =>
            ListsExactly(calc.result,
                         TilesOf(LocationBounds(calc.args[1], calc.args[2], calc.args[3]),
                                 {calc.args[4][k] : k \in 1..Len(calc.args[4])}))

\* a list over two zoom levels with several columns and rows at the higher
\* one, the box given with west > east
C23_Witness ==
    /\ calc.op = "generateTileUrls"
    /\ calc.args[1].west > calc.args[1].east
    /\ calc.args[2] < calc.args[3]
    /\ \E s, t \in TilesOf(calc.args[1], {calc.args[3]}) : s[2] # t[2] /\ s[3] # t[3]
    /\ Len(calc.result) >= 5

\* the tiles a call of one of the three generators has to list
TilesAsked ==
    CASE calc.op = "generateTileUrls" ->
            TilesOf(calc.args[1], calc.args[2]..calc.args[3])
      [] calc.op = "generateTileURLsForLocation" ->
            TilesOf(LocationBounds(calc.args[1], calc.args[2], calc.args[3]),
                    {calc.args[4][k] : k \in 1..Len(calc.args[4])})
      [] calc.op = "getVisibleTiles" ->
            TilesOf(calc.args[1], {calc.args[2]})
      [] OTHER -> {}

\* C24: each of the three generators returns, for every tile (z, x, y) it
\* has to list, the url whose path ends in tile/z/y/x, and returns nothing
\* else; for these tiles the substitutions of the TileCache, of the service
\* worker and of the map manager give the same url, and two different tiles
\* never the same url.
C24_PathOrderIsZYX ==
    /\ \A t \in TilesAsked :
            /\ \E i \in 1..Len(calc.result) : calc.result[i] = TileRequest(t[1], t[2], t[3])
            /\ TileUrl(t[1], t[2], t[3]) = LocationTileUrl(t[1], t[2], t[3])
            /\ TileUrl(t[1], t[2], t[3]) = VisibleTileUrl(t[1], t[2], t[3])
    /\ TilesAsked # {} =>
            \A i \in 1..Len(calc.result) :
                \E t \in TilesAsked : calc.result[i] = TileRequest(t[1], t[2], t[3])
    /\ \A s, t \in TilesAsked :
            s # t => /\ TileUrl(s[1], s[2], s[3]) # TileUrl(t[1], t[2], t[3])
                     /\ LocationTileUrl(s[1], s[2], s[3]) # LocationTileUrl(t[1], t[2], t[3])
                     /\ VisibleTileUrl(s[1], s[2], s[3]) # VisibleTileUrl(t[1], t[2], t[3])

\* the map manager has listed the tile of column 3 and row 1 at zoom 2 as
\* .../tile/2/1/3, beside the tile of column 1 and row 2
C24_Witness ==
    /\ calc.op = "getVisibleTiles"
    /\ \E i \in 1..Len(calc.result) :
            calc.result[i].path = SubSeq(tileUrl.path, 1, 6) \o <<"2", "1", "3">>
    /\ \E i \in 1..Len(calc.result) :
            calc.result[i].path = SubSeq(tileUrl.path, 1, 6) \o <<"2", "2", "1">>

\* the call tileFor(41.8273, 12.6734, 10) has returned
ReferenceCall ==
    /\ calc.op = "latLngToTile"
    /\ calc.args = <<ESRIN.lat, ESRIN.lon, ReferenceZoom>>

\* C26 as claimed: tileFor(41.8273, 12.6734, 10) returns the tile
\* (x, y) = (557, 384).
C26_ReferenceTileIs557_384 ==
    ReferenceCall => calc.result = [x |-> 557, y |-> 384]

\* C26 amended: tileFor(41.8273, 12.6734, 10) returns the tile
\* (x, y) = (548, 380); its x is floor((12.6734 + 180) / 360 * 2^10) = 548.
C26_ReferenceTileIs548_380 ==
    ReferenceCall =>
        /\ calc.error = "none"
        /\ calc.result = [x |-> 548, y |-> 380]
        /\ calc.result.x = ((ESRIN.lon + 1800000) * 1024) \div 3600000

C26_Witness ==
    ReferenceCall /\ calc.result.x = 548 /\ calc.result.y = 380

(***************************************************************************)
(* Properties at the poles, checked under SpecPolar.                       *)
(***************************************************************************)
\* C25: latLngToTile called with the latitude +90 or -90 fails with
\* InvalidCoordinate; it never returns an infinite coordinate; and a
\* download of a box that touches a pole attempts no fetch.
C25_PolesAreRejected ==
    /\ (calc.op = "latLngToTile" /\ calc.args[1] \in Poles) =>
            calc.error = "InvalidCoordinate"
    /\ calc.op = "latLngToTile" => calc.result.y # Infinity
    /\ \A c \in Calls :
            (calls[c].pc # "idle" /\ calls[c].args[1].north \in Poles) => calls[c].i = 0

(***************************************************************************)
(* Properties of the cache info and of clearCache, checked under SpecInfo. *)
(***************************************************************************)
\* the number of entries of the tile store that exists
PersistedTiles(storage, objs) ==
    IF storage[cacheName].live
    THEN Cardinality(DOMAIN objs[cacheName][storage[cacheName].incarn])
    ELSE 0

\* nothing has been written to a tile store created since the last
\* clearCache settled its caches.delete
NoWriterSince27 ==
    \A i \in 1..MaxIncarn : i > clearCall.incarn => cacheObjs[cacheName][i] = EmptyCache

\* the invocations made after the last clearCache completed
InfoAfterClear(who) == infos[who].pc = "done" /\ infos[who].since = clearCall
TileRequestAfterClear == req.pc = "done" /\ Handler = "tile" /\ req.since = clearCall

RECURSIVE FacilityTilesUpTo(_)
FacilityTilesUpTo(k) == IF k = 0 THEN 0 ELSE FacilityTilesUpTo(k - 1) + Len(FacilityUrls(k))

\* C28: when every fetch and every store operation settles, a cacheTiles job
\* that was started ends having attempted each of its urls once, and a
\* pre-warm that was started ends having gone through every facility and
\* fetched each of their tiles.
C28_DownloadsRunToCompletion ==
    /\ (calls[1].pc = "open") ~>
            (calls[1].pc = "resolved" /\ calls[1].completed = Len(calls[1].urls))
    /\ (prewarm["message"].pc = "open") ~>
            /\ prewarm["message"].pc = "done"
            /\ prewarm["message"].k = Len(ESA_FACILITIES)
            /\ prewarm["message"].launched = FacilityTilesUpTo(Len(ESA_FACILITIES))

(***************************************************************************)
(* Properties of concurrent writers, checked under SpecInterleave.         *)
(***************************************************************************)
\* the url a put of the download job, of the router or of the pre-warm is
\* writing
JobPutUrl == calls[1].urls[calls[1].i]
FlightUrl(f) == FacilityUrls(f.k)[f.j]

\* the urls of the puts that have been called and have not settled
PutsInFlight ==
    (IF calls[1].pc = "put" THEN {JobPutUrl} ELSE {})
        \cup {p.key : p \in pending}
        \cup {FlightUrl(f) : f \in {g \in flights : g.pc = "put"}}

\* the keys whose entry a step adds or changes
Changed(before, after) ==
    {u \in DOMAIN after : u \notin DOMAIN before \/ after[u] # before[u]}

\* C29: whatever the interleaving of the router's tile requests with the
\* download job and the pre-warm, a step drops no entry of any cache and
\* adds or replaces at most one, in the tile store, under the url of a put
\* in flight; and a put that settles successfully leaves the entry of its
\* url in the cache it was called on.
C29_WritesTouchOnlyTheirOwnUrl ==
    [][/\ \A n \in CacheNames, i \in 1..MaxIncarn :
            LET before == cacheObjs[n][i]
                after == cacheObjs'[n][i]
            IN  after # before =>
                    /\ DOMAIN before \subseteq DOMAIN after
                    /\ Cardinality(Changed(before, after)) = 1
                    /\ Changed(before, after) \subseteq PutsInFlight
                    /\ n = TILE_CACHE
       /\ (calls[1].pc = "put" /\ calls'[1].pc # "put" /\ cachesOk) =>
            JobPutUrl \in DOMAIN cacheObjs'[calls[1].cache.name][calls[1].cache.incarn]
       /\ \A p \in pending \ pending' :
            cachesOk => p.key \in DOMAIN cacheObjs'[p.cache.name][p.cache.incarn]
       /\ \A f \in flights \ flights' :
            (f.pc = "put" /\ cachesOk) =>
                FlightUrl(f) \in DOMAIN cacheObjs'[prewarm[f.run].cache.name]
                                                 [prewarm[f.run].cache.incarn]]_vars

\* a put of the router, a put of the download job and a put of the pre-warm
\* are in flight at once, two of them for the same url, while the tile store
\* already holds an entry
C29_Witness ==
    /\ calls[1].pc = "put"
    /\ \E p \in pending : p.key = JobPutUrl
    /\ \E f \in flights : f.pc = "put" /\ FlightUrl(f) # JobPutUrl
    /\ Entries(calls[1].cache) # EmptyCache

(***************************************************************************)
(* Properties of the stored entries, checked under SpecStores.             *)
(***************************************************************************)
\* the caches the tile store and the dynamic store are kept in
TileAndDynamicStores == {TILE_CACHE, cacheName, DYNAMIC_CACHE}

\* C30: every entry of the tile store and of the dynamic store is a response
\* of the network with a status from 200 to 299: no put site stores a failed
\* response or a response the router built itself.
C30_StoredEntriesAreOkResponses ==
    \A n \in TileAndDynamicStores, i \in 1..MaxIncarn :
        \A u \in DOMAIN cacheObjs[n][i] :
            /\ cacheObjs[n][i][u] \in NetResponses
            /\ cacheObjs[n][i][u].status >= 200
            /\ cacheObjs[n][i][u].status <= 299

\* both stores hold entries, the download and the pre-warm have written and
\* ended, and the geocoding request that has just been answered with an
\* error status left the entry of its url as it was
C30_Witness ==
    /\ calls[1].pc = "resolved" /\ prewarm["message"].pc = "done"
    /\ req.pc = "done" /\ req.url = ApiUrl /\ req.fetched \in ErrResponses
    /\ pending = {}
    /\ cacheStorage[DYNAMIC_CACHE].live /\ cacheStorage[TILE_CACHE].live
    /\ ApiUrl \in DOMAIN Entries(OpenHandle(DYNAMIC_CACHE))
    /\ Cardinality(DOMAIN Entries(OpenHandle(TILE_CACHE))) >= 2

(***************************************************************************)
(* Properties of the install event, checked under SpecUpgrade.             *)
(***************************************************************************)
\* the tiles of the facilities that are not in the tile cache
MissingFacilityTiles ==
    {<<k, j>> \in {<<k, j>> \in (1..Len(ESA_FACILITIES)) \X (1..FacilityTilesUpTo(Len(ESA_FACILITIES))) :
                        j <= Len(FacilityUrls(k))} :
        ~(cacheStorage[TILE_CACHE].live
            /\ FacilityUrls(k)[j] \in DOMAIN Entries(OpenHandle(TILE_CACHE)))}

\* C31: the install event calls skipWaiting only in the step in which the
\* last of the static assets and the pre-warm settles, with the static
\* assets stored and no fetch or put of the pre-warm left; it calls it
\* whenever both have settled and the static assets were stored, whatever
\* became of the tiles; and when the static assets fail the promise given
\* to waitUntil is fulfilled without skipWaiting, never rejected.
C31_SkipWaitingAfterBothSettled ==
    [][/\ (~installing.skipWaiting /\ installing'.skipWaiting) =>
            /\ installing'.static = "fulfilled"
            /\ prewarm'["install"].pc = "done"
            /\ FlightsOf("install", flights') = {}
            /\ installing.pc = "waiting" /\ installing'.pc = "installed"
       /\ (installing'.static = "fulfilled" /\ prewarm'["install"].pc = "done") =>
            installing'.pc = "installed" /\ installing'.skipWaiting
       /\ installing'.static = "rejected" =>
            installing'.pc = "installed" /\ ~installing'.skipWaiting
       /\ installing'.pc \in {"idle", "waiting", "installed"}]_vars

\* skipWaiting has been called after a pre-warm that fetched every tile of
\* every facility and failed to store some of them
C31_Witness ==
    /\ installing.pc = "installed" /\ installing.skipWaiting
    /\ prewarm["install"].launched = FacilityTilesUpTo(Len(ESA_FACILITIES))
    /\ MissingFacilityTiles # {}

(***************************************************************************)
(* Properties of jobs that outlive a clear, checked under SpecOrphan.      *)
(***************************************************************************)
\* the entries of the tile store a caches.open would return now
SubsequentlyOpened(storage, objs) ==
    IF storage[cacheName].live
    THEN objs[cacheName][storage[cacheName].incarn]
    ELSE EmptyCache

\* clearCache or the CLEAR_CACHE command has completed and had found the
\* cache of handle h, which a job still holds
OutlivedClear(h) ==
    /\ h.incarn >= 1
    /\ \/ clearCall.pc = "done" /\ clearCall.deleted /\ h.incarn <= clearCall.incarn
       \/ clearing.pc = "done" /\ h.incarn <= clearing.incarns[h.name]

\* C32: a tile that a download job or a pre-warm, in progress when
\* clearCache or the CLEAR_CACHE command completed, stores successfully
\* afterwards is in the tile store a caches.open returns from then on.
C32_JobsWriteToTheOpenedStore ==
    [][/\ (calls[1].pc = "put" /\ calls'[1].pc # "put" /\ cachesOk
                /\ OutlivedClear(calls[1].cache)) =>
            JobPutUrl \in DOMAIN SubsequentlyOpened(cacheStorage', cacheObjs')
       /\ \A f \in flights \ flights' :
            (f.pc = "put" /\ cachesOk /\ OutlivedClear(prewarm[f.run].cache)) =>
                FlightUrl(f) \in DOMAIN SubsequentlyOpened(cacheStorage', cacheObjs')]_vars

(***************************************************************************)
(* Properties of the two tile enumerations, checked under SpecViewport.    *)
(***************************************************************************)
\* the corner tiles of the box of a getVisibleTiles call
NwTile(bounds, zoom) == latLngToTile(bounds.north, bounds.west, zoom)
SeTile(bounds, zoom) == latLngToTile(bounds.south, bounds.east, zoom)

OrderedCornersAgree ==
    (/\ calc.op = "getVisibleTiles"
     /\ NwTile(calc.args[1], calc.args[2]).x <= SeTile(calc.args[1], calc.args[2]).x
     /\ NwTile(calc.args[1], calc.args[2]).y <= SeTile(calc.args[1], calc.args[2]).y) =>
        calc.result = generateTileUrls(calc.args[1], calc.args[2], calc.args[2])

\* a call with the north-west tile east of the south-east tile returns nothing
ReversedCornersAreEmpty ==
    (/\ calc.op = "getVisibleTiles"
     /\ NwTile(calc.args[1], calc.args[2]).x > SeTile(calc.args[1], calc.args[2]).x) =>
        calc.result = <<>> /\ generateTileUrls(calc.args[1], calc.args[2], calc.args[2]) # <<>>

====
